---- MODULE Spec2Model ----
(***************************************************************************)
(* Model of StorageOpt::VirtualStorageManager                              *)
(* (src/src/core/virtual_storage_manager.{h,cpp}): the virtual file table, *)
(* the storage quota, the physical files of the four tier directories, the *)
(* foreground calls and the three background loops.                        *)
(*                                                                         *)
(* Numbers.  size_t counters are kept modulo SizeMod (a narrow size_t, so  *)
(* that unsigned wrap-around is visible), doubles are kept in thousandths  *)
(* (2000 is 2.0) and a cast to size_t truncates.  Time is counted in whole *)
(* hours, the unit of every duration_cast in the code.                     *)
(*                                                                         *)
(* Locking a std::mutex the calling thread already owns is undefined       *)
(* behaviour.  The variable relock fixes, per behaviour, what the build    *)
(* does there: "deadlock" (the thread blocks forever, a plain pthread      *)
(* mutex), "throw" (std::system_error, an implementation that detects the  *)
(* relock) or "proceed" (the lock is re-entered, an implementation whose   *)
(* lock counts or is a no-op).                                             *)
(***************************************************************************)
EXTENDS Integers, Sequences, FiniteSets, TLC

\* ---------------------------------------------------------------- bounds
\* Foreground calls issued in one behaviour without / with the background
\* threads, and clock advances in one behaviour.
MaxCalls == 3
MaxCallsBg == 2
MaxTicks == 1
\* physical_limit handed to Initialize.
PhysicalLimit == 2
\* Calls and physical_limit of the behaviours that work on one file only.
MaxCallsOnePath == 5
OnePathPhysicalLimit == 3
\* Calls of the behaviours that work on two files beside the tier loop.
MaxCallsTwoPaths == 4
\* Calls and physical_limit of the behaviours that write one file again and
\* again: room for five writes of one byte, and calls for one more.
MaxCallsWrites == 7
WritesPhysicalLimit == 5
\* Calls of a caller that only creates: enough for the growth steps that take
\* the smallest multiplier past the largest one that can still grow.
MaxCallsGrowth == 22
MaxCallsStop == 4
\* Operations of one batch, ExecuteBatch calls of the caller, worker threads.
MaxOperations == 2
MaxBatches == 2
MaxWorkers == 2
\* Calls of a caller that prepares a file and moves it.
MaxCallsMove == 6
\* Sync operations a caller schedules, and sync worker threads.
MaxSyncs == 2
MaxSyncWorkers == 2

\* ------------------------------------------------------------- constants
SizeMod == 256
MinMultiplier == 1500
MaxMultiplier == 10000
HotHours == 1
WarmHours == 24
ColdHours == 168
max_cache_size_ == 20

\* ---------------------------------------------------------------- inputs
Paths == { <<"d", "/", "x">>, <<"d", "_", "x">> }
\* A small size, and one above the largest virtual limit there can be.
CreateSizes == {1, (MaxMultiplier \div 1000) * (PhysicalLimit + 2)}
DataChoices == { <<7>>, <<9, 9>>, <<5, 5, 5>> }
BufferSizes == {1, 2}
TickSteps == {2, 178, 200}
\* Values ApplyQuantumSuperposition can return: the sum of the boosts (2.4 to
\* 2.9 here) times 1 + noise, the noise normal with deviation 0.1, plus an
\* interference term within 0.05.
RawCoefficients == {1200, 2000, 4000}
RelockOutcomes == {"deadlock", "throw", "proceed"}

Threads == {"fg", "tier", "cache", "quantum"}
NoThread == "none"
Tiers == {"HOT", "WARM", "COLD", "FROZEN"}

VARIABLES
    relock,          \* what relocking an owned std::mutex does in this build
    virtual_files_,  \* virtual path -> VirtualFile (domain: the paths present)
    quota_,          \* StorageQuota
    disk,            \* physical path -> bytes (domain: the files that exist)
    files_mutex_,    \* owner of files_mutex_, or NoThread
    cache_mutex_,    \* owner of cache_mutex_, or NoThread
    running_,        \* std::atomic<bool> running_
    now,             \* system_clock::now(), in hours
    ticks,           \* clock advances still allowed
    pc,              \* position of each thread
    todo,            \* paths an OptimizeAllTiers loop has still to visit
    call,            \* the foreground call in progress, or the last one, with
                     \* what it found on entry (found, fits, buf), whether
                     \* the file system failed it (fault) and whether it
                     \* grew the multiplier (grew)
    budget,          \* foreground calls still allowed
    at_create,       \* history: the quota counters before the latest create
                     \* and the bytes of the last successful write since,
                     \* valid while only the created path has been used
    shrunk,          \* history: a recomputation has put virtual_limit under
                     \* current_virtual, which has stayed above it since
    trim,            \* the locals cache_usage and cached_files of the
                     \* OptimizeCache in progress
    batch,           \* the BatchOperationManager, its workers and callers
    cloud,           \* the CloudStorageIntegration's sync queue and worker
    move             \* the MOVE_FILE that ExecuteOperation is running

vars == << relock, virtual_files_, quota_, disk, files_mutex_, cache_mutex_,
           running_, now, ticks, pc, todo, call, budget, at_create, shrunk, trim,
           batch, cloud, move >>

\* --------------------------------------------------------------- helpers
Min(a, b) == IF a < b THEN a ELSE b
Max(a, b) == IF a > b THEN a ELSE b

Clamp(x, lo, hi) == Max(lo, Min(x, hi))

\* static_cast<size_t>(physical_limit * multiplier_factor)
VirtualLimitOf(physical_limit, multiplier) ==
    ((physical_limit * multiplier) \div 1000) % SizeMod

Put(f, k, v) == [x \in DOMAIN f \cup {k} |-> IF x = k THEN v ELSE f[x]]
Erase(f, k) == [x \in DOMAIN f \ {k} |-> f[x]]

LastIndexOf(s, c) ==
    LET I == {i \in DOMAIN s : s[i] = c}
    IN  IF I = {} THEN 0 ELSE CHOOSE i \in I : \A j \in I : j <= i

\* std::filesystem::path::parent_path
ParentPath(p) ==
    LET k == LastIndexOf(p, "/")
    IN  IF k = 0 THEN << >> ELSE SubSeq(p, 1, Max(k - 1, 1))

\* std::filesystem::path::extension
Extension(p) ==
    LET name == SubSeq(p, LastIndexOf(p, "/") + 1, Len(p))
        k == LastIndexOf(name, ".")
    IN  IF k <= 1 THEN << >> ELSE SubSeq(name, k, Len(name))

TierDir(tier) ==
    CASE tier = "HOT" -> "hot"
      [] tier = "WARM" -> "warm"
      [] tier = "COLD" -> "cold"
      [] tier = "FROZEN" -> "frozen"

SafeName(virtual_path) ==
    [i \in DOMAIN virtual_path |->
        IF virtual_path[i] \in {"/", "\\", ":"} THEN "_" ELSE virtual_path[i]]

GetPhysicalPath(virtual_path, tier) ==
    [dir |-> TierDir(tier), name |-> SafeName(virtual_path)]

HasPhysicalSpace(required_size) ==
    (quota_.current_physical + required_size) % SizeMod <= quota_.physical_limit

\* 1000 * tanh(n / 10.0) * 0.5
TanhHalf(n) ==
    IF n >= 4 THEN 189 ELSE << 0, 49, 98, 145 >>[n + 1]

\* 1000 * exp(-hours / 24.0)
ExpDecay(hours) ==
    LET q == hours \div 24
        r == hours % 24
        whole == IF q >= 7 THEN 0 ELSE << 1000, 367, 135, 49, 18, 6, 2 >>[q + 1]
        frac == << 1000, 959, 920, 882, 846, 811, 778, 747, 716, 687, 659, 632,
                   606, 581, 558, 535, 513, 492, 472, 453, 434, 416, 399, 383 >>[r + 1]
    IN  (whole * frac) \div 1000

\* The value CalculateQuantumEntanglement returns once it holds the lock.
CalculateQuantumEntanglement(file) ==
    LET others == DOMAIN virtual_files_ \ {file.virtual_path}
        related_files ==
            Cardinality({q \in others : ParentPath(q) = ParentPath(file.virtual_path)})
        same_ext ==
            Cardinality({q \in others : Extension(q) = Extension(file.virtual_path)})
    IN  Clamp(TanhHalf(related_files) + 100 * same_ext, 0, 1000)

CalculateFileQuantumFactor(file) ==
    LET entanglement == CalculateQuantumEntanglement(file)
        time_diff == now - file.last_access
        access_factor == ExpDecay(time_diff)
        compression_factor ==
            IF file.is_compressed /\ file.physical_size > 0
            THEN (file.virtual_size * 1000) \div file.physical_size
            ELSE 1000
    IN  Clamp(1000 + (entanglement * 200) \div 1000
                   + (access_factor * 100) \div 1000
                   + (compression_factor * 50) \div 1000, 1000, 2000)

PredictOptimalTier(file) ==
    LET hours_since_access == now - file.last_access
        quantum_factor == CalculateFileQuantumFactor(file)
    IN  IF hours_since_access * 1000 < HotHours * quantum_factor THEN "HOT"
        ELSE IF hours_since_access * 1000 < WarmHours * quantum_factor THEN "WARM"
        ELSE IF hours_since_access * 1000 < ColdHours * quantum_factor THEN "COLD"
        ELSE "FROZEN"

ShouldCacheFile(file) ==
    file.priority_score > 1500 /\ file.physical_size < max_cache_size_ \div 10

\* CacheFile and EvictFromCache only print and return true.
CacheFile(virtual_path) == TRUE

EvictFromCache(virtual_path) == TRUE

\* DownloadFromCloud only prints and returns true.
DownloadFromCloud(virtual_path) == TRUE

\* ExpandVirtualSpace(1.1) applied to a quota: whether it succeeded, and the
\* quota it leaves.
ExpandVirtualSpace(q) ==
    LET new_multiplier == (q.multiplier_factor * 11) \div 10
    IN  IF q.multiplier_factor * 11 > MaxMultiplier * 10
        THEN [ok |-> FALSE, quota |-> q]
        ELSE [ok |-> TRUE,
              quota |-> [q EXCEPT !.multiplier_factor = new_multiplier,
                                  !.virtual_limit =
                                      VirtualLimitOf(q.physical_limit, new_multiplier)]]

NewVirtualFile(virtual_path, size) ==
    [virtual_path |-> virtual_path,
     physical_path |-> GetPhysicalPath(virtual_path, "HOT"),
     virtual_size |-> size,
     physical_size |-> 0,
     tier |-> "HOT",
     is_cached |-> FALSE,
     is_compressed |-> FALSE,
     last_access |-> now,
     priority_score |-> 1000,
     cloud_location |-> ""]

NoCall == [op |-> "none", path |-> << >>, size |-> 0, data |-> << >>,
           state |-> "returned", ret |-> FALSE, out |-> << >>,
           found |-> FALSE, fits |-> FALSE, buf |-> 0, fault |-> FALSE,
           grew |-> FALSE]

NoTrim == [cache_usage |-> 0, cached_files |-> {}]

\* No BatchOperationManager, no CloudStorageIntegration and no MOVE_FILE.
NoBatch == << >>

NoCloud == << >>

NoMove == [stage |-> "none", result |-> FALSE, size |-> 0, buffer |-> << >>,
           had_source |-> FALSE, virtual_before |-> 0]

NoSnapshot == [path |-> << >>, physical |-> 0, virtual |-> 0, valid |-> FALSE,
               has_write |-> FALSE, written |-> << >>]

\* ------------------------------------------------------------------ Init
\* The state Initialize leaves: an empty table, the multiplier recomputed
\* and clamped, the virtual limit derived from it.
InitManager(physical_limit) ==
    /\ relock \in RelockOutcomes
    /\ virtual_files_ = << >>
    /\ \E raw \in RawCoefficients :
          LET m == Clamp(raw, MinMultiplier, MaxMultiplier)
          IN  quota_ = [physical_limit |-> physical_limit,
                        virtual_limit |-> VirtualLimitOf(physical_limit, m),
                        current_physical |-> 0,
                        current_virtual |-> 0,
                        multiplier_factor |-> m]
    /\ disk = << >>
    /\ files_mutex_ = NoThread
    /\ cache_mutex_ = NoThread
    /\ now = 0
    /\ todo = [t \in {"fg", "tier"} |-> {}]
    /\ call = NoCall
    /\ at_create = NoSnapshot
    /\ shrunk = FALSE
    /\ trim = NoTrim

\* The manager alone: no batch manager, no cloud integration, no move.
InitCommon(physical_limit) ==
    /\ InitManager(physical_limit)
    /\ batch = NoBatch
    /\ cloud = NoCloud
    /\ move = NoMove

\* Initialize() only: no background thread runs.
InitFg ==
    /\ InitCommon(PhysicalLimit)
    /\ running_ = FALSE
    /\ budget = MaxCalls
    /\ ticks = MaxTicks
    /\ pc = [t \in Threads |-> IF t = "fg" THEN "idle" ELSE "off"]

\* Initialize() and Start(): the three loops are at their heads.
Init ==
    /\ InitCommon(PhysicalLimit)
    /\ running_ = TRUE
    /\ budget = MaxCallsBg
    /\ ticks = MaxTicks
    /\ pc = [t \in Threads |->
                CASE t = "fg" -> "idle"
                  [] t = "tier" -> "t_head"
                  [] t = "cache" -> "c_head"
                  [] t = "quantum" -> "q_head"]

\* Initialize() only, for a caller that works on one file.
InitOnePath ==
    /\ InitCommon(OnePathPhysicalLimit)
    /\ running_ = FALSE
    /\ budget = MaxCallsOnePath
    /\ ticks = 0
    /\ pc = [t \in Threads |-> IF t = "fg" THEN "idle" ELSE "off"]

\* Initialize() and Start(), for a caller that works on two files; of the
\* three loops only the tier loop gets to run.
InitTwoPaths ==
    /\ InitCommon(OnePathPhysicalLimit)
    /\ running_ = TRUE
    /\ budget = MaxCallsTwoPaths
    /\ ticks = MaxTicks
    /\ pc = [t \in Threads |->
                CASE t = "fg" -> "idle"
                  [] t = "tier" -> "t_head"
                  [] t = "cache" -> "c_head"
                  [] t = "quantum" -> "q_head"]

\* Initialize() only, for a caller that writes one file again and again.
InitWrites ==
    /\ InitCommon(WritesPhysicalLimit)
    /\ running_ = FALSE
    /\ budget = MaxCallsWrites
    /\ ticks = 0
    /\ pc = [t \in Threads |-> IF t = "fg" THEN "idle" ELSE "off"]

\* Initialize() only, for a caller that creates file after file.
InitGrowth ==
    /\ InitCommon(PhysicalLimit)
    /\ running_ = FALSE
    /\ budget = MaxCallsGrowth
    /\ ticks = 0
    /\ pc = [t \in Threads |-> IF t = "fg" THEN "idle" ELSE "off"]

\* ------------------------------------------------------- foreground calls
\* The history shrunk after a step that sets quota_: recompute says that the
\* step is a recomputation that lowered virtual_limit.
ShrunkBy(recompute) ==
    /\ quota_'.current_virtual > quota_'.virtual_limit
    /\ (shrunk \/ recompute)

\* The lock_guard of the running call is destroyed and the call returns ret.
Finish(ret, size, out, fault) ==
    /\ call' = [call EXCEPT !.state = "returned", !.ret = ret,
                            !.size = size, !.out = out, !.fault = fault,
                            !.grew = pc["fg"] = "create"
                                     /\ quota_'.multiplier_factor # quota_.multiplier_factor]
    /\ pc' = [pc EXCEPT !["fg"] = "idle"]
    /\ files_mutex_' = NoThread

Return(ret, size, out) == Finish(ret, size, out, FALSE)

\* The call returns false because a file system operation failed.
ReturnFault == Finish(FALSE, call.size, << >>, TRUE)

\* An exception leaves the running call: its lock_guard is destroyed on the way.
Throw ==
    /\ call' = [call EXCEPT !.state = "threw"]
    /\ pc' = [pc EXCEPT !["fg"] = "idle"]
    /\ files_mutex_' = NoThread

\* The caller enters one of the four operations, whose first statement takes
\* files_mutex_.
Enter(op, path, size, data) ==
    /\ pc["fg"] = "idle"
    /\ budget > 0
    /\ files_mutex_ = NoThread
    /\ files_mutex_' = "fg"
    /\ budget' = budget - 1
    /\ call' = [op |-> op, path |-> path, size |-> size, data |-> data,
                state |-> "running", ret |-> FALSE, out |-> << >>,
                found |-> path \in DOMAIN virtual_files_,
                fits |-> HasPhysicalSpace(size), buf |-> size, fault |-> FALSE,
                grew |-> FALSE]
    /\ pc' = [pc EXCEPT !["fg"] = op]
    /\ at_create' =
          IF op = "create"
          THEN [path |-> path, physical |-> quota_.current_physical,
                virtual |-> quota_.current_virtual, valid |-> TRUE,
                has_write |-> FALSE, written |-> << >>]
          ELSE IF at_create.valid /\ at_create.path = path THEN at_create
          ELSE NoSnapshot
    /\ UNCHANGED << relock, virtual_files_, quota_, disk, cache_mutex_,
                    running_, now, ticks, todo, shrunk, trim, batch, cloud >>

\* A call of the caller itself, outside any MOVE_FILE.
Invoke(op, path, size, data) ==
    /\ Enter(op, path, size, data)
    /\ UNCHANGED move

InvokeCreate == \E path \in Paths, size \in CreateSizes :
    Invoke("create", path, size, << >>)

InvokeWrite == \E path \in Paths, data \in DataChoices :
    Invoke("write", path, Len(data), data)

InvokeRead == \E path \in Paths, size \in BufferSizes :
    Invoke("read", path, size, << >>)

InvokeDelete == \E path \in Paths :
    Invoke("delete", path, 0, << >>)

\* The calls of a caller that creates, writes, reads and deletes one small
\* file.
InvokeOnePath ==
    LET path == << "d", "/", "x" >>
    IN  \/ Invoke("create", path, 1, << >>)
        \/ Invoke("write", path, 1, << 7 >>)
        \/ Invoke("read", path, 1, << >>)
        \/ Invoke("delete", path, 0, << >>)

\* The calls of a caller that creates and writes "d/x" and "d_x", each with
\* bytes of its own, and reads "d/x".
InvokeTwoPaths ==
    \/ Invoke("create", << "d", "/", "x" >>, 1, << >>)
    \/ Invoke("create", << "d", "_", "x" >>, 2, << >>)
    \/ Invoke("write", << "d", "/", "x" >>, 1, << 7 >>)
    \/ Invoke("write", << "d", "_", "x" >>, 2, << 9, 9 >>)
    \/ Invoke("read", << "d", "/", "x" >>, 2, << >>)

\* The calls of a caller that fills the virtual space: a file of twice the
\* physical limit, a file of one byte, and the removal of the first.
InvokeQuota ==
    \/ Invoke("create", << "d", "/", "x" >>, 2 * PhysicalLimit, << >>)
    \/ Invoke("create", << "d", "_", "x" >>, 1, << >>)
    \/ Invoke("delete", << "d", "/", "x" >>, 0, << >>)

\* The calls of a caller that writes one file again and again.
InvokeWrites ==
    \/ Invoke("create", << "d", "/", "x" >>, 1, << >>)
    \/ Invoke("write", << "d", "/", "x" >>, 1, << 7 >>)
    \/ Invoke("read", << "d", "/", "x" >>, 1, << >>)

\* The calls of a caller that only creates: a file above every virtual limit
\* there can be, and files of one byte.
InvokeGrowth ==
    \/ Invoke("create", << "d", "/", "x" >>,
              (MaxMultiplier \div 1000) * (PhysicalLimit + 2), << >>)
    \/ Invoke("create", << "d", "_", "x" >>, 1, << >>)

\* The caller enters the public RecalculateQuantumMultiplier, which holds no
\* lock of its own: its first statement is the call of GetCompressionEfficiency.
InvokeRecalculate ==
    /\ pc["fg"] = "idle"
    /\ budget > 0
    /\ budget' = budget - 1
    /\ call' = [NoCall EXCEPT !.op = "recalculate", !.state = "running"]
    /\ pc' = [pc EXCEPT !["fg"] = "q_ce"]
    /\ UNCHANGED << relock, virtual_files_, quota_, disk, files_mutex_,
                    cache_mutex_, running_, now, ticks, todo, at_create, shrunk, trim,
                    batch, cloud, move >>

CreateVirtualFile ==
    /\ pc["fg"] = "create"
    /\ LET over == (quota_.current_virtual + call.size) % SizeMod > quota_.virtual_limit
           grown == ExpandVirtualSpace(quota_)
           q == IF over THEN grown.quota ELSE quota_
       IN  IF over /\ ~grown.ok
           THEN /\ UNCHANGED << virtual_files_, quota_ >>
                /\ Return(FALSE, call.size, << >>)
                /\ at_create' = NoSnapshot
           ELSE /\ virtual_files_' =
                      Put(virtual_files_, call.path, NewVirtualFile(call.path, call.size))
                /\ quota_' = [q EXCEPT !.current_virtual = (@ + call.size) % SizeMod]
                /\ Return(TRUE, call.size, << >>)
                /\ UNCHANGED at_create
    /\ shrunk' = ShrunkBy(FALSE)
    /\ UNCHANGED << trim, batch, cloud, move >>
    /\ UNCHANGED << relock, disk, cache_mutex_, running_, now, ticks, todo, budget >>

\* WriteData as a write-through cache would have it: the written file is
\* marked cached.
WriteDataMarksCached(fs_ok) ==
    LET vfile == virtual_files_[call.path]
        written == [vfile EXCEPT !.physical_size = call.size, !.last_access = now,
                                 !.is_cached = TRUE]
        quantum_factor == CalculateFileQuantumFactor(written)
        scored == [written EXCEPT
                      !.priority_score = (@ * quantum_factor) \div 1000]
    IN  IF ~fs_ok
        THEN /\ ReturnFault
             /\ UNCHANGED << virtual_files_, quota_, disk >>
        ELSE /\ disk' = Put(disk, vfile.physical_path, call.data)
             /\ quota_' = [quota_ EXCEPT
                              !.current_physical = (@ + call.size) % SizeMod]
             /\ IF relock = "deadlock"
                THEN /\ virtual_files_' = [virtual_files_ EXCEPT ![call.path] = written]
                     /\ pc' = [pc EXCEPT !["fg"] = "deadlocked"]
                     /\ UNCHANGED << call, files_mutex_ >>
                ELSE IF relock = "throw"
                THEN /\ virtual_files_' = [virtual_files_ EXCEPT ![call.path] = written]
                     /\ Return(FALSE, call.size, << >>)
                ELSE /\ virtual_files_' = [virtual_files_ EXCEPT ![call.path] = scored]
                     /\ Return(TRUE, call.size, << >>)

\* Lines 148-178 of WriteVirtualFile: the physical write, the metadata and
\* quota update, then CalculateFileQuantumFactor, which relocks files_mutex_.
WriteData(fs_ok) ==
    LET vfile == virtual_files_[call.path]
        written == [vfile EXCEPT !.physical_size = call.size, !.last_access = now]
        quantum_factor == CalculateFileQuantumFactor(written)
        scored == [written EXCEPT
                      !.priority_score = (@ * quantum_factor) \div 1000]
    IN  IF ~fs_ok
        THEN /\ ReturnFault
             /\ UNCHANGED << virtual_files_, quota_, disk >>
        ELSE /\ disk' = Put(disk, vfile.physical_path, call.data)
             /\ quota_' = [quota_ EXCEPT
                              !.current_physical = (@ + call.size) % SizeMod]
             /\ IF relock = "deadlock"
                THEN /\ virtual_files_' = [virtual_files_ EXCEPT ![call.path] = written]
                     /\ pc' = [pc EXCEPT !["fg"] = "deadlocked"]
                     /\ UNCHANGED << call, files_mutex_ >>
                ELSE IF relock = "throw"
                THEN /\ virtual_files_' = [virtual_files_ EXCEPT ![call.path] = written]
                     /\ Return(FALSE, call.size, << >>)
                ELSE /\ virtual_files_' = [virtual_files_ EXCEPT ![call.path] = scored]
                     /\ Return(TRUE, call.size, << >>)

\* The history after a step of a write call: a write that returned true
\* is the last successful write to the created path.
Written ==
    IF pc'["fg"] = "idle" /\ call'.ret /\ at_create.valid /\ at_create.path = call.path
    THEN [at_create EXCEPT !.has_write = TRUE, !.written = call.data]
    ELSE at_create

\* WriteVirtualFile with an implicit create: a path the table does not hold is
\* inserted instead of being refused.
WriteCreatesMissing ==
    /\ pc["fg"] = "write"
    /\ IF call.path \notin DOMAIN virtual_files_
       THEN /\ virtual_files_' =
                  Put(virtual_files_, call.path, NewVirtualFile(call.path, call.size))
            /\ Return(TRUE, call.size, << >>)
            /\ UNCHANGED << quota_, disk >>
       ELSE IF ~HasPhysicalSpace(call.size)
       THEN /\ pc' = [pc EXCEPT !["fg"] = "opt_lock"]
            /\ UNCHANGED << virtual_files_, quota_, disk, call, files_mutex_ >>
       ELSE \E fs_ok \in BOOLEAN : WriteData(fs_ok)
    /\ at_create' = Written
    /\ UNCHANGED << shrunk, trim, batch, cloud, move >>
    /\ UNCHANGED << relock, cache_mutex_, running_, now, ticks, todo, budget >>

WriteVirtualFile ==
    /\ pc["fg"] = "write"
    /\ IF call.path \notin DOMAIN virtual_files_
       THEN /\ Return(FALSE, call.size, << >>)
            /\ UNCHANGED << virtual_files_, quota_, disk >>
       ELSE IF ~HasPhysicalSpace(call.size)
       THEN /\ pc' = [pc EXCEPT !["fg"] = "opt_lock"]
            /\ UNCHANGED << virtual_files_, quota_, disk, call, files_mutex_ >>
       ELSE \E fs_ok \in BOOLEAN : WriteData(fs_ok)
    /\ at_create' = Written
    /\ UNCHANGED << shrunk, trim, batch, cloud, move >>
    /\ UNCHANGED << relock, cache_mutex_, running_, now, ticks, todo, budget >>

\* Line 142: the second HasPhysicalSpace, after OptimizeAllTiers has returned.
WriteAfterOptimize ==
    /\ pc["fg"] = "w_recheck"
    /\ IF ~HasPhysicalSpace(call.size)
       THEN /\ Return(FALSE, call.size, << >>)
            /\ UNCHANGED << virtual_files_, quota_, disk >>
       ELSE \E fs_ok \in BOOLEAN : WriteData(fs_ok)
    /\ at_create' = Written
    /\ UNCHANGED << shrunk, trim, batch, cloud, move >>
    /\ UNCHANGED << relock, cache_mutex_, running_, now, ticks, todo, budget >>

ReadVirtualFile ==
    /\ pc["fg"] = "read"
    /\ IF call.path \notin DOMAIN virtual_files_
       THEN /\ Return(FALSE, call.size, << >>)
            /\ UNCHANGED virtual_files_
       ELSE LET vfile == virtual_files_[call.path]
                touched == [vfile EXCEPT !.last_access = now]
                file_size == Len(disk[vfile.physical_path])
            IN  IF /\ vfile.tier = "FROZEN"
                   /\ vfile.cloud_location # ""
                   /\ ~DownloadFromCloud(call.path)
                THEN /\ virtual_files_' = [virtual_files_ EXCEPT ![call.path] = touched]
                     /\ Return(FALSE, call.size, << >>)
                ELSE IF vfile.physical_path \notin DOMAIN disk
                THEN /\ virtual_files_' = [virtual_files_ EXCEPT ![call.path] = touched]
                     /\ Return(FALSE, call.size, << >>)
                ELSE IF call.size < file_size
                THEN /\ virtual_files_' = [virtual_files_ EXCEPT ![call.path] = touched]
                     /\ Return(FALSE, file_size, << >>)
                ELSE /\ ShouldCacheFile(touched) => CacheFile(call.path)
                     /\ virtual_files_' =
                           [virtual_files_ EXCEPT ![call.path] =
                               [touched EXCEPT !.priority_score = Min(@ + 100, 2000)]]
                     /\ Return(TRUE, file_size, disk[vfile.physical_path])
    /\ UNCHANGED << relock, quota_, disk, cache_mutex_, running_, now, ticks,
                    todo, budget, at_create, shrunk, trim, batch, cloud, move >>

DeleteVirtualFile ==
    /\ pc["fg"] = "delete"
    /\ IF call.path \notin DOMAIN virtual_files_
       THEN /\ Return(FALSE, call.size, << >>)
            /\ UNCHANGED << virtual_files_, quota_, disk >>
       ELSE LET vfile == virtual_files_[call.path]
            IN  \E fs_ok \in BOOLEAN :
                  IF vfile.physical_path \in DOMAIN disk /\ ~fs_ok
                  THEN /\ ReturnFault
                       /\ UNCHANGED << virtual_files_, quota_, disk >>
                  ELSE /\ disk' = Erase(disk, vfile.physical_path)
                       /\ quota_' = [quota_ EXCEPT
                             !.current_physical =
                                 (@ + SizeMod - vfile.virtual_size) % SizeMod,
                             !.current_virtual =
                                 (@ + SizeMod - vfile.virtual_size) % SizeMod]
                       /\ virtual_files_' = Erase(virtual_files_, call.path)
                       /\ Return(TRUE, call.size, << >>)
    /\ shrunk' = ShrunkBy(FALSE)
    /\ UNCHANGED << trim, batch, cloud, move >>
    /\ UNCHANGED << relock, cache_mutex_, running_, now, ticks, todo, budget,
                    at_create >>

\* The clock moves on.
Tick ==
    /\ ticks > 0
    /\ \E d \in TickSteps : now' = now + d
    /\ ticks' = ticks - 1
    /\ UNCHANGED << relock, virtual_files_, quota_, disk, files_mutex_,
                    cache_mutex_, running_, pc, todo, call, budget, at_create, shrunk, trim,
                    batch, cloud, move >>

\* ------------------------------------------------------ OptimizeAllTiers
\* OptimizeAllTiers is run by the tier thread (TierManagementLoop) and by the
\* foreground thread (WriteVirtualFile, line 141).

\* OptimizeThrows with no catch in the loop: the exception of a detected
\* relock leaves the thread function, and the loop is over.
OptimizeThrowsEndsLoop(t) ==
    /\ todo' = [todo EXCEPT ![t] = {}]
    /\ IF t = "fg"
       THEN Throw
       ELSE /\ pc' = [pc EXCEPT ![t] = "done"]
            /\ files_mutex_' = NoThread
            /\ UNCHANGED call

\* The exception of a detected relock leaves OptimizeAllTiers in thread t: in
\* the tier thread the loop's catch takes it, in the foreground thread it
\* leaves WriteVirtualFile as well.
OptimizeThrows(t) ==
    /\ todo' = [todo EXCEPT ![t] = {}]
    /\ IF t = "fg"
       THEN Throw
       ELSE /\ pc' = [pc EXCEPT ![t] = "t_head"]
            /\ files_mutex_' = NoThread
            /\ UNCHANGED call

\* Line 512: the lock_guard of OptimizeAllTiers.
OptimizeAllTiersLock(t) ==
    /\ pc[t] = "opt_lock"
    /\ files_mutex_ \in {NoThread, t}
    /\ IF files_mutex_ = NoThread \/ relock = "proceed"
       THEN /\ files_mutex_' = t
            /\ todo' = [todo EXCEPT ![t] = DOMAIN virtual_files_]
            /\ pc' = [pc EXCEPT ![t] = "opt_loop"]
            /\ UNCHANGED call
       ELSE IF relock = "deadlock"
       THEN /\ pc' = [pc EXCEPT ![t] = "deadlocked"]
            /\ UNCHANGED << files_mutex_, todo, call >>
       ELSE OptimizeThrows(t)
    /\ UNCHANGED << relock, virtual_files_, quota_, disk, cache_mutex_, running_,
                    now, ticks, budget, at_create, shrunk, trim,
                    batch, cloud, move >>

\* MoveToOptimalTier with the tier assigned outside the try block: a failed
\* rename still changes the tier.
MoveSetsTierOnFailure(path, rename_ok) ==
    LET file == virtual_files_[path]
        optimal_tier == PredictOptimalTier(file)
        new_physical_path == GetPhysicalPath(file.virtual_path, optimal_tier)
    IN  IF optimal_tier # file.tier /\ file.physical_path \in DOMAIN disk
        THEN IF rename_ok
             THEN /\ disk' = Put(Erase(disk, file.physical_path),
                                 new_physical_path, disk[file.physical_path])
                  /\ virtual_files_' =
                        [virtual_files_ EXCEPT ![path] =
                            [file EXCEPT !.physical_path = new_physical_path,
                                         !.tier = optimal_tier]]
             ELSE /\ virtual_files_' =
                        [virtual_files_ EXCEPT ![path] =
                            [file EXCEPT !.tier = optimal_tier]]
                  /\ UNCHANGED disk
        ELSE UNCHANGED << disk, virtual_files_ >>

\* Lines 515-535 for one file: the move of an existing physical file to the
\* directory of the predicted tier; rename_ok is whether the rename succeeds.
MoveToOptimalTier(path, rename_ok) ==
    LET file == virtual_files_[path]
        optimal_tier == PredictOptimalTier(file)
        new_physical_path == GetPhysicalPath(file.virtual_path, optimal_tier)
    IN  IF optimal_tier # file.tier /\ file.physical_path \in DOMAIN disk /\ rename_ok
        THEN /\ disk' = Put(Erase(disk, file.physical_path),
                            new_physical_path, disk[file.physical_path])
             /\ virtual_files_' =
                   [virtual_files_ EXCEPT ![path] =
                       [file EXCEPT !.physical_path = new_physical_path,
                                    !.tier = optimal_tier]]
        ELSE UNCHANGED << disk, virtual_files_ >>

\* One iteration of the loop of line 514.  PredictOptimalTier reaches
\* CalculateQuantumEntanglement, which locks files_mutex_ again (line 430).
OptimizeAllTiersStep(t) ==
    /\ pc[t] = "opt_loop"
    /\ todo[t] # {}
    /\ IF relock = "deadlock"
       THEN /\ pc' = [pc EXCEPT ![t] = "deadlocked"]
            /\ UNCHANGED << files_mutex_, todo, call, disk, virtual_files_ >>
       ELSE IF relock = "throw"
       THEN /\ OptimizeThrows(t)
            /\ UNCHANGED << disk, virtual_files_ >>
       ELSE \E path \in todo[t], rename_ok \in BOOLEAN :
               /\ MoveToOptimalTier(path, rename_ok)
               /\ todo' = [todo EXCEPT ![t] = @ \ {path}]
               /\ UNCHANGED << pc, files_mutex_, call >>
    /\ UNCHANGED << relock, quota_, cache_mutex_, running_, now, ticks, budget,
                    at_create, shrunk, trim, batch, cloud, move >>

\* The loop is over and the lock_guard of OptimizeAllTiers is destroyed; the
\* foreground thread is back in WriteVirtualFile, still inside its own guard.
OptimizeAllTiersDone(t) ==
    /\ pc[t] = "opt_loop"
    /\ todo[t] = {}
    /\ IF t = "fg"
       THEN /\ pc' = [pc EXCEPT ![t] = "w_recheck"]
            /\ UNCHANGED files_mutex_
       ELSE /\ pc' = [pc EXCEPT ![t] = "t_head"]
            /\ files_mutex_' = NoThread
    /\ UNCHANGED << relock, virtual_files_, quota_, disk, cache_mutex_, running_,
                    now, ticks, todo, call, budget, at_create, shrunk, trim,
                    batch, cloud, move >>

OptimizeAllTiers ==
    \E t \in {"fg", "tier"} :
        OptimizeAllTiersLock(t) \/ OptimizeAllTiersStep(t) \/ OptimizeAllTiersDone(t)

\* ------------------------------------------------------- background loops
\* while (running_) of a loop: into the body at pc body, or out of the thread.
LoopHead(t, head, body) ==
    /\ pc[t] = head
    /\ pc' = [pc EXCEPT ![t] = IF running_ THEN body ELSE "done"]
    /\ UNCHANGED << relock, virtual_files_, quota_, disk, files_mutex_,
                    cache_mutex_, running_, now, ticks, todo, call, budget,
                    at_create, shrunk, trim, batch, cloud, move >>

TierManagementLoop == LoopHead("tier", "t_head", "opt_lock")

CacheManagementLoop ==
    /\ LoopHead("cache", "c_head", "c_scan")

\* Total physical_size of the entries with is_cached set (lines 599-604).
CacheUsage(files) ==
    LET RECURSIVE Sum(_)
        Sum(S) == IF S = {} THEN 0
                  ELSE LET p == CHOOSE x \in S : TRUE
                       IN  files[p].physical_size + Sum(S \ {p})
    IN  Sum({p \in DOMAIN files : files[p].is_cached})

\* What virtual_files_[path] of line 627 inserts for a path the table does
\* not hold: a value-initialized VirtualFile.
DefaultVirtualFile ==
    [virtual_path |-> << >>,
     physical_path |-> [name |-> << >>, dir |-> ""],
     virtual_size |-> 0,
     physical_size |-> 0,
     tier |-> "HOT",
     is_cached |-> FALSE,
     is_compressed |-> FALSE,
     last_access |-> 0,
     priority_score |-> 0,
     cloud_location |-> ""]

\* Line 596: the lock_guard of OptimizeCache, on cache_mutex_ only.
OptimizeCacheLock ==
    /\ pc["cache"] = "c_scan"
    /\ cache_mutex_ = NoThread
    /\ cache_mutex_' = "cache"
    /\ pc' = [pc EXCEPT !["cache"] = "c_sum"]
    /\ UNCHANGED << relock, virtual_files_, quota_, disk, files_mutex_, running_,
                    now, ticks, todo, call, budget, at_create, shrunk, trim,
                    batch, cloud, move >>

\* OptimizeCache with every file counted as cached and no budget: each pass
\* evicts all the files it has collected.
OptimizeCacheTrimsAll ==
    /\ pc["cache"] \in {"c_sum", "c_evict"}
    /\ LET usage == CacheUsage(virtual_files_)
           cached == {[path |-> p, last_access |-> virtual_files_[p].last_access] :
                         p \in DOMAIN virtual_files_}
           return == /\ pc' = [pc EXCEPT !["cache"] = "c_head"]
                     /\ cache_mutex_' = NoThread
                     /\ trim' = NoTrim
       IN  IF pc["cache"] = "c_sum"
           THEN /\ IF virtual_files_ # << >>
                   THEN /\ trim' = [cache_usage |-> usage, cached_files |-> cached]
                        /\ pc' = [pc EXCEPT !["cache"] = "c_evict"]
                        /\ UNCHANGED cache_mutex_
                   ELSE return
                /\ UNCHANGED virtual_files_
           ELSE IF trim.cached_files = {}
           THEN return /\ UNCHANGED virtual_files_
           ELSE \E file_pair \in trim.cached_files :
                   /\ \A other \in trim.cached_files :
                         file_pair.last_access <= other.last_access
                   /\ EvictFromCache(file_pair.path)
                   /\ virtual_files_' =
                         IF file_pair.path \in DOMAIN virtual_files_
                         THEN virtual_files_
                         ELSE Put(virtual_files_, file_pair.path, DefaultVirtualFile)
                   /\ trim' = [cache_usage |->
                                  (trim.cache_usage + SizeMod
                                   - virtual_files_'[file_pair.path].physical_size) % SizeMod,
                               cached_files |-> trim.cached_files \ {file_pair}]
                   /\ UNCHANGED << pc, cache_mutex_ >>
    /\ UNCHANGED << relock, quota_, disk, files_mutex_, running_, now, ticks,
                    todo, call, budget, at_create, shrunk, batch, cloud, move >>

\* OptimizeCache with the table locked for its reads of virtual_files_: it
\* takes files_mutex_ while it holds cache_mutex_.
OptimizeCacheLocksTable ==
    \/ /\ pc["cache"] = "c_sum"
       /\ files_mutex_ = NoThread
       /\ files_mutex_' = "cache"
       /\ UNCHANGED << relock, virtual_files_, quota_, disk, cache_mutex_,
                       running_, now, ticks, pc, todo, call, budget, at_create,
                       shrunk, trim, batch, cloud, move >>
    \/ /\ pc["cache"] \in {"c_sum", "c_evict"}
       /\ files_mutex_ = "cache"
       /\ LET usage == CacheUsage(virtual_files_)
              cached == {[path |-> p, last_access |-> virtual_files_[p].last_access] :
                            p \in {q \in DOMAIN virtual_files_ : virtual_files_[q].is_cached}}
              return == /\ pc' = [pc EXCEPT !["cache"] = "c_head"]
                        /\ cache_mutex_' = NoThread
                        /\ files_mutex_' = NoThread
                        /\ trim' = NoTrim
          IN  IF pc["cache"] = "c_sum"
              THEN /\ IF usage > max_cache_size_
                      THEN /\ trim' = [cache_usage |-> usage, cached_files |-> cached]
                           /\ pc' = [pc EXCEPT !["cache"] = "c_evict"]
                           /\ UNCHANGED << cache_mutex_, files_mutex_ >>
                      ELSE return
                   /\ UNCHANGED virtual_files_
              ELSE IF trim.cached_files = {} \/ trim.cache_usage <= max_cache_size_
              THEN return /\ UNCHANGED virtual_files_
              ELSE \E file_pair \in trim.cached_files :
                      /\ \A other \in trim.cached_files :
                            file_pair.last_access <= other.last_access
                      /\ EvictFromCache(file_pair.path)
                      /\ virtual_files_' =
                            IF file_pair.path \in DOMAIN virtual_files_
                            THEN virtual_files_
                            ELSE Put(virtual_files_, file_pair.path, DefaultVirtualFile)
                      /\ trim' = [cache_usage |->
                                     (trim.cache_usage + SizeMod
                                      - virtual_files_'[file_pair.path].physical_size) % SizeMod,
                                  cached_files |-> trim.cached_files \ {file_pair}]
                      /\ UNCHANGED << pc, cache_mutex_, files_mutex_ >>
       /\ UNCHANGED << relock, quota_, disk, running_, now, ticks,
                       todo, call, budget, at_create, shrunk,
                       batch, cloud, move >>

\* The body of OptimizeCache, which reads and writes virtual_files_ without
\* files_mutex_.  At c_sum, lines 599-614: the cached files are summed and,
\* over budget, collected with their last_access.  At c_evict, one iteration
\* of the loop of lines 623-628: EvictFromCache (which only prints) for the
\* oldest file collected, then virtual_files_[path], which inserts an entry
\* for a path that has left the table meanwhile.  The lock_guard is released
\* when the function returns.
OptimizeCacheBody ==
    /\ pc["cache"] \in {"c_sum", "c_evict"}
    /\ LET usage == CacheUsage(virtual_files_)
           cached == {[path |-> p, last_access |-> virtual_files_[p].last_access] :
                         p \in {q \in DOMAIN virtual_files_ : virtual_files_[q].is_cached}}
           return == /\ pc' = [pc EXCEPT !["cache"] = "c_head"]
                     /\ cache_mutex_' = NoThread
                     /\ trim' = NoTrim
       IN  IF pc["cache"] = "c_sum"
           THEN /\ IF usage > max_cache_size_
                   THEN /\ trim' = [cache_usage |-> usage, cached_files |-> cached]
                        /\ pc' = [pc EXCEPT !["cache"] = "c_evict"]
                        /\ UNCHANGED cache_mutex_
                   ELSE return
                /\ UNCHANGED virtual_files_
           ELSE IF trim.cached_files = {} \/ trim.cache_usage <= max_cache_size_
           THEN return /\ UNCHANGED virtual_files_
           ELSE \E file_pair \in trim.cached_files :
                   /\ \A other \in trim.cached_files :
                         file_pair.last_access <= other.last_access
                   /\ EvictFromCache(file_pair.path)
                   /\ virtual_files_' =
                         IF file_pair.path \in DOMAIN virtual_files_
                         THEN virtual_files_
                         ELSE Put(virtual_files_, file_pair.path, DefaultVirtualFile)
                   /\ trim' = [cache_usage |->
                                  (trim.cache_usage + SizeMod
                                   - virtual_files_'[file_pair.path].physical_size) % SizeMod,
                               cached_files |-> trim.cached_files \ {file_pair}]
                   /\ UNCHANGED << pc, cache_mutex_ >>
    /\ UNCHANGED << relock, quota_, disk, files_mutex_, running_, now, ticks,
                    todo, call, budget, at_create, shrunk, batch, cloud, move >>

OptimizeCache == OptimizeCacheLock \/ OptimizeCacheBody

QuantumMultiplierLoop == LoopHead("quantum", "q_head", "q_ce")

\* RecalculateQuantumMultiplier is run by the quantum thread
\* (QuantumMultiplierLoop, line 501) and, being public, by the foreground
\* thread.

\* A scan of virtual_files_ inside its own lock_guard.
LockedScan(t, from, to) ==
    /\ pc[t] = from
    /\ files_mutex_ = NoThread
    /\ pc' = [pc EXCEPT ![t] = to]
    /\ UNCHANGED << relock, virtual_files_, quota_, disk, files_mutex_,
                    cache_mutex_, running_, now, ticks, todo, call, budget,
                    at_create, shrunk, trim, batch, cloud, move >>

\* Lines 309 and 312 of RecalculateQuantumMultiplier.
GetCompressionEfficiency(t) == LockedScan(t, "q_ce", "q_cloud")

GetCloudStorageUsed(t) == LockedScan(t, "q_cloud", "q_ent")

\* Lines 319-325: the lock_guard and, for every file of the table,
\* CalculateQuantumEntanglement, which locks files_mutex_ again.  The
\* exception of a detected relock goes to the catch of the loop, or to the
\* caller of the foreground thread.
EntanglementEffect(t) ==
    /\ pc[t] = "q_ent"
    /\ files_mutex_ = NoThread
    /\ IF virtual_files_ = << >> \/ relock = "proceed"
       THEN /\ pc' = [pc EXCEPT ![t] = "q_store"]
            /\ UNCHANGED << files_mutex_, call >>
       ELSE IF relock = "deadlock"
       THEN /\ pc' = [pc EXCEPT ![t] = "deadlocked"]
            /\ files_mutex_' = t
            /\ UNCHANGED call
       ELSE IF t = "fg"
       THEN Throw
       ELSE /\ pc' = [pc EXCEPT ![t] = "q_head"]
            /\ UNCHANGED << files_mutex_, call >>
    /\ UNCHANGED << relock, virtual_files_, quota_, disk, cache_mutex_, running_,
                    now, ticks, todo, budget, at_create, shrunk, trim,
                    batch, cloud, move >>

\* Line 330: the value of ApplyQuantumSuperposition is stored, unclamped and
\* with no lock held.
StoreMultiplier(t) ==
    /\ pc[t] = "q_store"
    /\ \E raw \in RawCoefficients :
          quota_' = [quota_ EXCEPT !.multiplier_factor = raw]
    /\ pc' = [pc EXCEPT ![t] = "q_clamp"]
    /\ UNCHANGED << relock, virtual_files_, disk, files_mutex_, cache_mutex_,
                    running_, now, ticks, todo, call, budget, at_create, shrunk, trim,
                    batch, cloud, move >>

\* Line 335: std::clamp(quota_.multiplier_factor, 1.5, 10.0), with no lock
\* held; RecalculateQuantumMultiplier then returns, to line 502 of the loop or
\* to the caller of the foreground thread.
ClampMultiplier(t) ==
    /\ pc[t] = "q_clamp"
    /\ quota_' = [quota_ EXCEPT
                     !.multiplier_factor = Clamp(@, MinMultiplier, MaxMultiplier)]
    /\ IF t = "fg"
       THEN /\ call' = [call EXCEPT !.state = "returned", !.ret = TRUE]
            /\ pc' = [pc EXCEPT ![t] = "idle"]
       ELSE /\ pc' = [pc EXCEPT ![t] = "q_limits"]
            /\ UNCHANGED call
    /\ UNCHANGED << relock, virtual_files_, disk, files_mutex_, cache_mutex_,
                    running_, now, ticks, todo, budget, at_create, shrunk, trim,
                    batch, cloud, move >>

RecalculateQuantumMultiplier(t) ==
    \/ GetCompressionEfficiency(t)
    \/ GetCloudStorageUsed(t)
    \/ EntanglementEffect(t)
    \/ StoreMultiplier(t)
    \/ ClampMultiplier(t)

\* Called from QuantumMultiplierLoop with no lock held.
RecalculateVirtualLimits ==
    /\ pc["quantum"] = "q_limits"
    /\ quota_' = [quota_ EXCEPT
                     !.virtual_limit =
                         VirtualLimitOf(quota_.physical_limit, quota_.multiplier_factor)]
    /\ pc' = [pc EXCEPT !["quantum"] = "q_head"]
    /\ shrunk' = ShrunkBy(quota_'.virtual_limit < quota_.virtual_limit)
    /\ UNCHANGED << trim, batch, cloud, move >>
    /\ UNCHANGED << relock, virtual_files_, disk, files_mutex_, cache_mutex_,
                    running_, now, ticks, todo, call, budget, at_create >>

\* --------------------------------------------------------- specifications
Foreground ==
    \/ InvokeCreate
    \/ InvokeWrite
    \/ InvokeRead
    \/ InvokeDelete
    \/ CreateVirtualFile
    \/ WriteVirtualFile
    \/ WriteAfterOptimize
    \/ ReadVirtualFile
    \/ DeleteVirtualFile

NextFg ==
    \/ Foreground
    \/ OptimizeAllTiers
    \/ Tick

Next ==
    \/ Foreground
    \/ OptimizeAllTiers
    \/ Tick
    \/ TierManagementLoop
    \/ CacheManagementLoop
    \/ OptimizeCache
    \/ QuantumMultiplierLoop
    \/ InvokeRecalculate
    \/ \E t \in {"fg", "quantum"} : RecalculateQuantumMultiplier(t)
    \/ RecalculateVirtualLimits

\* The manager used without Start(): the four file operations only.
SpecFg == InitFg /\ [][NextFg]_vars

NextOnePath ==
    \/ InvokeOnePath
    \/ CreateVirtualFile
    \/ WriteVirtualFile
    \/ WriteAfterOptimize
    \/ ReadVirtualFile
    \/ DeleteVirtualFile
    \/ OptimizeAllTiers

\* The manager used without Start() by a caller that works on one file, for
\* more calls than SpecFg allows.
SpecOnePath == InitOnePath /\ [][NextOnePath]_vars

NextTwoPaths ==
    \/ InvokeTwoPaths
    \/ CreateVirtualFile
    \/ WriteVirtualFile
    \/ WriteAfterOptimize
    \/ ReadVirtualFile
    \/ OptimizeAllTiers
    \/ TierManagementLoop
    \/ Tick

\* The manager after Start(), used on two files while the tier loop runs.
SpecTwoPaths == InitTwoPaths /\ [][NextTwoPaths]_vars

NextQuota ==
    \/ InvokeQuota
    \/ CreateVirtualFile
    \/ DeleteVirtualFile
    \/ QuantumMultiplierLoop
    \/ RecalculateQuantumMultiplier("quantum")
    \/ RecalculateVirtualLimits

\* The manager after Start(), with a caller that fills the virtual space while
\* the quantum loop recomputes the multiplier and the limit.
SpecQuota == Init /\ [][NextQuota]_vars

NextWrites ==
    \/ InvokeWrites
    \/ CreateVirtualFile
    \/ WriteVirtualFile
    \/ WriteAfterOptimize
    \/ ReadVirtualFile
    \/ OptimizeAllTiers

\* The manager used without Start() by a caller that writes one file again
\* and again.
SpecWrites == InitWrites /\ [][NextWrites]_vars

NextGrowth ==
    \/ InvokeGrowth
    \/ CreateVirtualFile

\* The manager used without Start() by a caller that creates file after file,
\* each create past the limit growing the multiplier by one step.
SpecGrowth == InitGrowth /\ [][NextGrowth]_vars

TierThread ==
    \/ TierManagementLoop
    \/ OptimizeAllTiersLock("tier")
    \/ OptimizeAllTiersStep("tier")
    \/ OptimizeAllTiersDone("tier")

CacheThread == CacheManagementLoop \/ OptimizeCache

QuantumThread ==
    \/ QuantumMultiplierLoop
    \/ RecalculateQuantumMultiplier("quantum")
    \/ RecalculateVirtualLimits

NextLoops ==
    \/ InvokeQuota
    \/ CreateVirtualFile
    \/ DeleteVirtualFile
    \/ TierThread
    \/ CacheThread
    \/ QuantumThread

\* The manager after Start(), with a caller that creates and deletes files
\* while the three loops run.  Every thread is scheduled: a call that has
\* begun goes on, and a loop that waits for files_mutex_ gets it once it is
\* free often enough (the loops sleep for minutes between two iterations).
SpecLoops ==
    /\ Init
    /\ [][NextLoops]_vars
    /\ WF_vars(CreateVirtualFile \/ DeleteVirtualFile)
    /\ SF_vars(TierThread)
    /\ WF_vars(CacheThread)
    /\ SF_vars(QuantumThread)

\* The manager after Start(): the file operations, direct calls of
\* RecalculateQuantumMultiplier and the three loops.
Spec == Init /\ [][Next]_vars

\* ---------------------------------------------------------- Start and Stop
\* A thread whose pc is "off" has no running thread function and is not
\* joinable: it was never started, or it was joined.

\* Lines 67-74: Start() sets running_ and starts the three loops.  The caller
\* does not start a manager whose threads are joinable (assigning to a
\* joinable std::thread terminates the program).
Start ==
    /\ pc["fg"] = "idle"
    /\ budget > 0
    /\ \A t \in Threads \ {"fg"} : pc[t] = "off"
    /\ budget' = budget - 1
    /\ running_' = TRUE
    /\ pc' = [t \in Threads |->
                CASE t = "fg" -> "idle"
                  [] t = "tier" -> "t_head"
                  [] t = "cache" -> "c_head"
                  [] t = "quantum" -> "q_head"]
    /\ call' = [NoCall EXCEPT !.op = "start", !.ret = TRUE]
    /\ UNCHANGED << relock, virtual_files_, quota_, disk, files_mutex_,
                    cache_mutex_, now, ticks, todo, at_create, shrunk, trim,
                    batch, cloud, move >>

\* Line 77: Stop() clears running_; it takes no lock.
StopSignal ==
    /\ pc["fg"] = "idle"
    /\ budget > 0
    /\ budget' = budget - 1
    /\ running_' = FALSE
    /\ pc' = [pc EXCEPT !["fg"] = "join_tier"]
    /\ call' = [NoCall EXCEPT !.op = "stop", !.state = "running"]
    /\ UNCHANGED << relock, virtual_files_, quota_, disk, files_mutex_,
                    cache_mutex_, now, ticks, todo, at_create, shrunk, trim,
                    batch, cloud, move >>

\* Lines 79-87: if (thread.joinable()) thread.join(): the join returns when
\* the thread function of t has returned, and t is not joinable afterwards.
\* After the last join Stop() returns (line 89).
StopJoin(t, at, then) ==
    /\ pc["fg"] = at
    /\ pc[t] \in {"off", "done"}
    /\ pc' = [pc EXCEPT !["fg"] = then, ![t] = "off"]
    /\ call' = IF then = "idle"
               THEN [call EXCEPT !.state = "returned", !.ret = TRUE]
               ELSE call
    /\ UNCHANGED << relock, virtual_files_, quota_, disk, files_mutex_,
                    cache_mutex_, running_, now, ticks, todo, budget,
                    at_create, shrunk, trim, batch, cloud, move >>

Stop ==
    \/ StopSignal
    \/ StopJoin("tier", "join_tier", "join_cache")
    \/ StopJoin("cache", "join_cache", "join_quantum")
    \/ StopJoin("quantum", "join_quantum", "idle")

\* Initialize() only, for a caller that starts and stops the manager.
InitStop ==
    /\ InitCommon(PhysicalLimit)
    /\ running_ = FALSE
    /\ budget = MaxCallsStop
    /\ ticks = 0
    /\ pc = [t \in Threads |-> IF t = "fg" THEN "idle" ELSE "off"]

\* The calls of a caller that starts and stops the manager.
InvokeStop == Invoke("create", << "d", "/", "x" >>, 1, << >>)

NextStop ==
    \/ Start
    \/ Stop
    \/ InvokeStop
    \/ CreateVirtualFile
    \/ TierThread
    \/ CacheThread
    \/ QuantumThread

\* The manager with a caller that creates a file and starts and stops the
\* loops.  Every thread is scheduled as in SpecLoops; a sleep of a loop ends,
\* and a Stop() that has begun goes on.
SpecStop ==
    /\ InitStop
    /\ [][NextStop]_vars
    /\ WF_vars(CreateVirtualFile)
    /\ WF_vars(Stop)
    /\ SF_vars(TierThread)
    /\ WF_vars(CacheThread)
    /\ SF_vars(QuantumThread)

\* ------------------------------------------------------------- MOVE_FILE
\* ExecuteOperation of a MOVE_FILE (batch_operation_manager.cpp:309-328) on
\* the manager: QuantumStorageSystem::ReadFile, CreateFile, WriteFile and
\* DeleteFile pass the call on to the manager and return its result
\* (quantum_storage_system.cpp:141-242).
ManagerVars == << relock, virtual_files_, quota_, disk, files_mutex_,
                  cache_mutex_, running_, now, ticks, pc, todo, call, budget,
                  at_create, shrunk, trim >>

MoveSource == << "d", "/", "x" >>
MoveDestination == << "y" >>

\* The buffer of line 311 holds any file of the model.
MoveBufferSize == 3

\* Lines 311-313: the buffer, and ReadFile on the source.  had_source and
\* virtual_before are histories: the table and the quota when the move began.
MoveBegin ==
    /\ move.stage = "none"
    /\ Enter("read", MoveSource, MoveBufferSize, << >>)
    /\ move' = [stage |-> "read", result |-> FALSE, size |-> MoveBufferSize,
                buffer |-> << >>,
                had_source |-> MoveSource \in DOMAIN virtual_files_,
                virtual_before |-> quota_.current_virtual]

\* Lines 331-333: ExecuteOperation returns result.
MoveReturn(result) ==
    /\ move' = [move EXCEPT !.stage = "done", !.result = result]
    /\ UNCHANGED << ManagerVars, batch, cloud >>

\* Lines 313-326 after a call of the manager has returned: the next call of
\* the chain read, create, write, delete, or the end of the move with the
\* error of the call that returned false.  An exception of the manager
\* leaves ExecuteOperation.
MoveStep ==
    /\ move.stage \in {"read", "create", "write", "delete"}
    /\ pc["fg"] = "idle"
    /\ IF call.state = "threw"
       THEN /\ move' = [move EXCEPT !.stage = "threw"]
            /\ UNCHANGED << ManagerVars, batch, cloud >>
       ELSE IF ~call.ret
       THEN MoveReturn(FALSE)
       ELSE CASE move.stage = "read" ->
                   /\ Enter("create", MoveDestination, call.size, << >>)
                   /\ move' = [move EXCEPT !.stage = "create",
                                           !.size = call.size,
                                           !.buffer = call.out]
              [] move.stage = "create" ->
                   /\ Enter("write", MoveDestination, move.size, move.buffer)
                   /\ move' = [move EXCEPT !.stage = "write"]
              [] move.stage = "write" ->
                   /\ Enter("delete", MoveSource, 0, << >>)
                   /\ move' = [move EXCEPT !.stage = "delete"]
              [] move.stage = "delete" -> MoveReturn(TRUE)

MoveFile == MoveBegin \/ MoveStep

\* Initialize() only, for a caller that prepares a file and moves it.
InitMove ==
    /\ InitManager(PhysicalLimit)
    /\ running_ = FALSE
    /\ budget = MaxCallsMove
    /\ ticks = 0
    /\ pc = [t \in Threads |-> IF t = "fg" THEN "idle" ELSE "off"]
    /\ batch = NoBatch
    /\ cloud = NoCloud
    /\ move = NoMove

\* The calls that prepare the source before the move.
InvokeMove ==
    /\ move.stage = "none"
    /\ \/ Invoke("create", MoveSource, 2, << >>)
       \/ Invoke("write", MoveSource, 1, << 7 >>)
       \/ Invoke("write", MoveSource, 2, << 9, 9 >>)

NextMove ==
    \/ InvokeMove
    \/ MoveFile
    \/ CreateVirtualFile
    \/ WriteVirtualFile
    \/ WriteAfterOptimize
    \/ ReadVirtualFile
    \/ DeleteVirtualFile
    \/ OptimizeAllTiers

\* One MOVE_FILE of "d/x" to "y", executed on the manager without Start().
SpecMove == InitMove /\ [][NextMove]_vars

\* -------------------------------------------------- BatchOperationManager
\* batch_operation_manager.cpp.  The storage system behind ExecuteOperation is
\* the manager modelled above; here an operation's outcome is an input.
Workers == 1..MaxWorkers

Operation(i) == [operation_id |-> i, completed |-> FALSE, success |-> FALSE]

NoResult == [returned |-> FALSE, total_operations |-> 0,
             successful_operations |-> 0, failed_operations |-> 0,
             operations |-> << >>]

\* Number of entries of a sequence of operations that have success set.
RECURSIVE Successful(_)
Successful(ops) ==
    IF ops = << >> THEN 0
    ELSE (IF Head(ops).success THEN 1 ELSE 0) + Successful(Tail(ops))

\* The constructor and Initialize(max_workers): running_ is set and
\* max_workers threads run WorkerThread (lines 8-31).  executed is a history:
\* how often ExecuteOperation ran on each operation of the current batch.
InitBatch ==
    /\ InitManager(PhysicalLimit)
    /\ relock = "proceed"      \* the storage manager takes no step here
    /\ quota_.multiplier_factor = MinMultiplier
    /\ running_ = FALSE
    /\ budget = 0
    /\ ticks = 0
    /\ pc = [t \in Threads |-> IF t = "fg" THEN "idle" ELSE "off"]
    /\ cloud = NoCloud
    /\ move = NoMove
    /\ \E max_workers \in Workers :
          batch = [running_ |-> TRUE,
                   operation_queue_ |-> << >>,
                   completed_operations_ |-> << >>,
                   operations_completed_ |-> 0,
                   operations_total_ |-> 0,
                   worker |-> [w \in Workers |->
                                 [pc |-> IF w <= max_workers THEN "w_head" ELSE "off",
                                  operation |-> Operation(0)]],
                   caller |-> [pc |-> "idle", operations |-> << >>,
                               parallel |-> FALSE, mode |-> "none", next |-> 1,
                               calls |-> MaxBatches, result |-> NoResult],
                   shutdown |-> "idle",
                   executed |-> [i \in 1..MaxOperations |-> 0]]

\* A worker is between the predicate of queue_cv_.wait and the wait itself:
\* it holds queue_mutex_.
QueueLocked == \E w \in Workers : batch.worker[w].pc = "w_block"

\* notify_all on queue_cv_: every waiting worker evaluates the predicate again.
NotifyAll(worker) ==
    [w \in Workers |-> IF worker[w].pc = "w_blocked"
                       THEN [worker[w] EXCEPT !.pc = "w_wait"]
                       ELSE worker[w]]

\* Lines 257-334 for the outcome success of the storage system's operation.
ExecuteOperation(operation, success) ==
    [operation EXCEPT !.completed = TRUE, !.success = success]

\* Lines 47-51: the caller enters ExecuteBatch with n operations; the two
\* counters are set.
ExecuteBatchBegin ==
    /\ batch.caller.pc = "idle"
    /\ batch.caller.calls > 0
    /\ \E n \in 0..MaxOperations, parallel \in BOOLEAN :
          batch' = [batch EXCEPT
                      !.operations_total_ = n,
                      !.operations_completed_ = 0,
                      !.executed = [i \in 1..MaxOperations |-> 0],
                      !.caller = [pc |-> "eb_clear",
                                  operations |-> [i \in 1..n |-> Operation(i)],
                                  parallel |-> parallel, mode |-> "none",
                                  next |-> 1,
                                  calls |-> @.calls - 1, result |-> NoResult]]
    /\ UNCHANGED << ManagerVars, cloud, move >>

\* Line 53: ClearCompletedOperations.
ExecuteBatchClear ==
    /\ batch.caller.pc = "eb_clear"
    /\ batch' = [batch EXCEPT !.completed_operations_ = << >>,
                              !.caller.pc = "eb_mode"]
    /\ UNCHANGED << ManagerVars, cloud, move >>

\* Line 55: if (parallel && running_).  mode is a history: the branch taken.
ExecuteBatchMode ==
    /\ batch.caller.pc = "eb_mode"
    /\ batch' = IF batch.caller.parallel /\ batch.running_
                THEN [batch EXCEPT !.caller.pc = "eb_push",
                                   !.caller.mode = "parallel"]
                ELSE [batch EXCEPT !.caller.pc = "eb_seq",
                                   !.caller.mode = "sequential"]
    /\ UNCHANGED << ManagerVars, cloud, move >>

\* Lines 57-62: the operations are pushed under queue_mutex_.
ExecuteBatchQueue ==
    /\ batch.caller.pc = "eb_push"
    /\ ~QueueLocked
    /\ batch' = [batch EXCEPT
                    !.operation_queue_ = @ \o batch.caller.operations,
                    !.caller.pc = "eb_notify"]
    /\ UNCHANGED << ManagerVars, cloud, move >>

\* Line 63: queue_cv_.notify_all().
ExecuteBatchNotify ==
    /\ batch.caller.pc = "eb_notify"
    /\ batch' = [batch EXCEPT !.worker = NotifyAll(@),
                              !.caller.pc = "eb_wait"]
    /\ UNCHANGED << ManagerVars, cloud, move >>

\* Lines 66-68: the polling loop is left when operations_completed_ has
\* reached operations_total_; until then the caller sleeps and looks again.
ExecuteBatchWait ==
    /\ batch.caller.pc = "eb_wait"
    /\ batch.operations_completed_ >= batch.operations_total_
    /\ batch' = [batch EXCEPT !.caller.pc = "eb_collect"]
    /\ UNCHANGED << ManagerVars, cloud, move >>

\* Lines 71-79: one iteration of the sequential loop, or its end.
ExecuteBatchSequential ==
    /\ batch.caller.pc = "eb_seq"
    /\ LET i == batch.caller.next
       IN  IF i > Len(batch.caller.operations)
           THEN batch' = [batch EXCEPT !.caller.pc = "eb_collect"]
           ELSE \E success \in BOOLEAN :
                   batch' = [batch EXCEPT
                       !.executed[i] = @ + 1,
                       !.completed_operations_ =
                           Append(@, ExecuteOperation(batch.caller.operations[i], success)),
                       !.operations_completed_ = @ + 1,
                       !.caller.next = i + 1]
    /\ UNCHANGED << ManagerVars, cloud, move >>

\* Lines 86-103: the result is built from completed_operations_ under
\* results_mutex_, and ExecuteBatch returns it.
ExecuteBatchCollect ==
    /\ batch.caller.pc = "eb_collect"
    /\ LET done == batch.completed_operations_
       IN  batch' = [batch EXCEPT
                       !.caller.pc = "idle",
                       !.caller.result =
                           [returned |-> TRUE,
                            total_operations |-> Len(done),
                            successful_operations |-> Successful(done),
                            failed_operations |-> Len(done) - Successful(done),
                            operations |-> done]]
    /\ UNCHANGED << ManagerVars, cloud, move >>

ExecuteBatch ==
    \/ ExecuteBatchBegin
    \/ ExecuteBatchClear
    \/ ExecuteBatchMode
    \/ ExecuteBatchQueue
    \/ ExecuteBatchNotify
    \/ ExecuteBatchWait
    \/ ExecuteBatchSequential
    \/ ExecuteBatchCollect

\* Line 222: while (running_); line 254 when the loop is left.
WorkerHead(w) ==
    /\ batch.worker[w].pc = "w_head"
    /\ batch' = [batch EXCEPT !.worker[w].pc =
                    IF batch.running_ THEN "w_wait" ELSE "exited"]
    /\ UNCHANGED << ManagerVars, cloud, move >>

\* Lines 226-238: the worker takes queue_mutex_ and evaluates the predicate
\* of the wait.  If it holds: break when stopped with an empty queue, pop the
\* front operation when there is one, else continue.  If not, the worker is
\* about to wait.
WorkerWait(w) ==
    /\ batch.worker[w].pc = "w_wait"
    /\ ~QueueLocked
    /\ LET queue == batch.operation_queue_
       IN  IF queue = << >> /\ batch.running_
           THEN batch' = [batch EXCEPT !.worker[w].pc = "w_block"]
           ELSE IF ~batch.running_ /\ queue = << >>
           THEN batch' = [batch EXCEPT !.worker[w].pc = "exited"]
           ELSE IF queue # << >>
           THEN batch' = [batch EXCEPT
                            !.operation_queue_ = Tail(queue),
                            !.worker[w] = [pc |-> "w_exec", operation |-> Head(queue)]]
           ELSE batch' = [batch EXCEPT !.worker[w].pc = "w_head"]
    /\ UNCHANGED << ManagerVars, cloud, move >>

\* The wait of line 227 itself: queue_mutex_ is released and the worker
\* sleeps until it is notified.
WorkerBlock(w) ==
    /\ batch.worker[w].pc = "w_block"
    /\ batch' = [batch EXCEPT !.worker[w].pc = "w_blocked"]
    /\ UNCHANGED << ManagerVars, cloud, move >>

\* A condition variable may wake a waiting thread with no notification.
WorkerSpuriousWake(w) ==
    /\ batch.worker[w].pc = "w_blocked"
    /\ batch' = [batch EXCEPT !.worker[w].pc = "w_wait"]
    /\ UNCHANGED << ManagerVars, cloud, move >>

\* Line 242: ExecuteOperation(operation).
WorkerExecute(w) ==
    /\ batch.worker[w].pc = "w_exec"
    /\ \E success \in BOOLEAN :
          batch' = [batch EXCEPT
                      !.executed[batch.worker[w].operation.operation_id] = @ + 1,
                      !.worker[w] = [pc |-> "w_store",
                                     operation |-> ExecuteOperation(@.operation, success)]]
    /\ UNCHANGED << ManagerVars, cloud, move >>

\* Lines 245-248: the operation is appended to completed_operations_ under
\* results_mutex_.
WorkerStore(w) ==
    /\ batch.worker[w].pc = "w_store"
    /\ batch' = [batch EXCEPT
                    !.completed_operations_ = Append(@, batch.worker[w].operation),
                    !.worker[w].pc = "w_count"]
    /\ UNCHANGED << ManagerVars, cloud, move >>

\* Lines 250-251: operations_completed_++ and NotifyProgress.
WorkerCount(w) ==
    /\ batch.worker[w].pc = "w_count"
    /\ batch' = [batch EXCEPT !.operations_completed_ = @ + 1,
                              !.worker[w].pc = "w_head"]
    /\ UNCHANGED << ManagerVars, cloud, move >>

\* The steps of worker w that the scheduler owes it.
WorkerSteps(w) ==
    \/ WorkerHead(w)
    \/ WorkerWait(w)
    \/ WorkerBlock(w)
    \/ WorkerExecute(w)
    \/ WorkerStore(w)
    \/ WorkerCount(w)

WorkerThread == \E w \in Workers : WorkerSteps(w) \/ WorkerSpuriousWake(w)

\* Line 34: another thread enters Shutdown(); running_ is cleared with no
\* lock held.
ShutdownSignal ==
    /\ batch.shutdown = "idle"
    /\ batch' = [batch EXCEPT !.running_ = FALSE, !.shutdown = "sd_notify"]
    /\ UNCHANGED << ManagerVars, cloud, move >>

\* Line 35: queue_cv_.notify_all().
ShutdownNotify ==
    /\ batch.shutdown = "sd_notify"
    /\ batch' = [batch EXCEPT !.worker = NotifyAll(@), !.shutdown = "sd_join"]
    /\ UNCHANGED << ManagerVars, cloud, move >>

\* Lines 37-43: every worker thread is joined, then the vector is cleared.
ShutdownJoin ==
    /\ batch.shutdown = "sd_join"
    /\ \A w \in Workers : batch.worker[w].pc \in {"off", "exited"}
    /\ batch' = [batch EXCEPT
                    !.worker = [w \in Workers |-> [@[w] EXCEPT !.pc = "off"]],
                    !.shutdown = "sd_clear"]
    /\ UNCHANGED << ManagerVars, cloud, move >>

\* Line 44: ClearCompletedOperations; Shutdown() returns.
ShutdownClear ==
    /\ batch.shutdown = "sd_clear"
    /\ batch' = [batch EXCEPT !.completed_operations_ = << >>,
                              !.shutdown = "done"]
    /\ UNCHANGED << ManagerVars, cloud, move >>

Shutdown ==
    \/ ShutdownSignal
    \/ ShutdownNotify
    \/ ShutdownJoin
    \/ ShutdownClear

NextBatch ==
    \/ ExecuteBatch
    \/ WorkerThread
    \/ Shutdown

\* One thread calls ExecuteBatch, another may call Shutdown() once, and the
\* workers run.  Every thread is scheduled, and a thread that waits for
\* queue_mutex_ gets it when it is free again and again; a notification wakes
\* a waiting worker, a wake-up without one is not owed.
SpecBatch ==
    /\ InitBatch
    /\ [][NextBatch]_vars
    /\ SF_vars(ExecuteBatch)
    /\ \A w \in Workers : SF_vars(WorkerSteps(w))
    /\ WF_vars(ShutdownNotify \/ ShutdownJoin \/ ShutdownClear)

\* ------------------------------------------------ CloudStorageIntegration
\* cloud_storage_integration.cpp: the sync queue and the threads that run
\* SyncWorkerLoop.  What an attempt does to the cloud is an input: it
\* succeeds, fails or throws.
SyncWorkers == 1..MaxSyncWorkers

\* A SyncOperation as its callers build it: retry_count 0 (lines 170, 213,
\* 844, 902); the completion callback is absent, or returns, or throws.
SyncOperation(id, callback) ==
    [id |-> id, retry_count |-> 0, completion_callback |-> callback]

\* Start() (lines 63-76): running_ is set and the sync workers run.  attempts
\* and callbacks are histories: the outcomes of the attempts made on each
\* operation, and the arguments its callback was invoked with.
InitSync ==
    /\ InitManager(PhysicalLimit)
    /\ relock = "proceed"      \* the storage manager takes no step here
    /\ quota_.multiplier_factor = MinMultiplier
    /\ running_ = FALSE
    /\ budget = 0
    /\ ticks = 0
    /\ pc = [t \in Threads |-> IF t = "fg" THEN "idle" ELSE "off"]
    /\ batch = NoBatch
    /\ move = NoMove
    /\ cloud = [running_ |-> TRUE,
                sync_queue_ |-> << >>,
                worker |-> [w \in SyncWorkers |->
                               [pc |-> "s_head", operation |-> SyncOperation(0, "none")]],
                scheduled |-> 0,
                stop |-> "idle",
                attempts |-> [id \in 1..MaxSyncs |-> << >>],
                callbacks |-> [id \in 1..MaxSyncs |-> << >>]]

\* ScheduleSync can take sync_mutex_, and notify_one wakes worker w: one of
\* the waiting workers, or none (0) when none waits.
CanPush(w) ==
    /\ \A v \in SyncWorkers : cloud.worker[v].pc # "s_block"
    /\ IF \E v \in SyncWorkers : cloud.worker[v].pc = "s_blocked"
       THEN w \in SyncWorkers /\ cloud.worker[w].pc = "s_blocked"
       ELSE w = 0

\* ScheduleSync (lines 285-289): the operation is pushed under sync_mutex_
\* and worker w is woken.
Pushed(operation, w) ==
    [cloud EXCEPT
        !.sync_queue_ = Append(@, operation),
        !.worker = [v \in SyncWorkers |->
                       IF v = w THEN [@[v] EXCEPT !.pc = "s_wait"] ELSE @[v]]]

\* A caller schedules a new operation.
ScheduleSync ==
    /\ cloud.scheduled < MaxSyncs
    /\ \E callback \in {"none", "returns", "throws"}, w \in SyncWorkers \cup {0} :
          /\ CanPush(w)
          /\ cloud' = [Pushed(SyncOperation(cloud.scheduled + 1, callback), w)
                          EXCEPT !.scheduled = @ + 1]
    /\ UNCHANGED << ManagerVars, batch, move >>

\* Line 399: while (running_).
SyncWorkerHead(w) ==
    /\ cloud.worker[w].pc = "s_head"
    /\ cloud' = [cloud EXCEPT !.worker[w].pc =
                    IF cloud.running_ THEN "s_wait" ELSE "exited"]
    /\ UNCHANGED << ManagerVars, batch, move >>

\* Lines 403-411: the worker takes sync_mutex_ and evaluates the predicate of
\* the wait; if it holds the worker leaves when stopped, else it pops the
\* front operation; if not, it is about to wait.
SyncWorkerWait(w) ==
    /\ cloud.worker[w].pc = "s_wait"
    /\ \A v \in SyncWorkers : cloud.worker[v].pc # "s_block"
    /\ LET queue == cloud.sync_queue_
       IN  IF queue = << >> /\ cloud.running_
           THEN cloud' = [cloud EXCEPT !.worker[w].pc = "s_block"]
           ELSE IF ~cloud.running_
           THEN cloud' = [cloud EXCEPT !.worker[w].pc = "exited"]
           ELSE cloud' = [cloud EXCEPT
                            !.sync_queue_ = Tail(queue),
                            !.worker[w] = [pc |-> "s_exec", operation |-> Head(queue)]]
    /\ UNCHANGED << ManagerVars, batch, move >>

\* The wait of line 405, or a wake-up of it with no notification.
SyncWorkerBlock(w) ==
    /\ cloud.worker[w].pc \in {"s_block", "s_blocked"}
    /\ cloud' = [cloud EXCEPT !.worker[w].pc =
                    IF @ = "s_block" THEN "s_blocked" ELSE "s_wait"]
    /\ UNCHANGED << ManagerVars, batch, move >>

\* Lines 416-431: the attempt returns true or false, or throws.
SyncWorkerExecute(w) ==
    /\ cloud.worker[w].pc = "s_exec"
    /\ \E outcome \in {"success", "failure", "exception"} :
          cloud' = [cloud EXCEPT
                      !.attempts[cloud.worker[w].operation.id] = Append(@, outcome),
                      !.worker[w].pc = CASE outcome = "success" -> "s_ok"
                                         [] outcome = "failure" -> "s_failed"
                                         [] outcome = "exception" -> "s_catch"]
    /\ UNCHANGED << ManagerVars, batch, move >>

\* The completion callback of worker w's operation is invoked with result
\* at a statement inside the try block (in_try) or inside the catch block: a
\* callback that throws takes the worker to the catch block, or out of the
\* thread function.
Callback(w, result, in_try) ==
    LET operation == cloud.worker[w].operation
    IN  IF operation.completion_callback = "none"
        THEN cloud' = [cloud EXCEPT !.worker[w].pc = "s_head"]
        ELSE cloud' = [cloud EXCEPT
                         !.callbacks[operation.id] = Append(@, result),
                         !.worker[w].pc =
                             IF operation.completion_callback = "returns" THEN "s_head"
                             ELSE IF in_try THEN "s_catch"
                             ELSE "terminated"]

\* Lines 433-437: success, completion_callback(true).
SyncWorkerSucceeded(w) ==
    /\ cloud.worker[w].pc = "s_ok"
    /\ Callback(w, TRUE, TRUE)
    /\ UNCHANGED << ManagerVars, batch, move >>

\* Lines 438-450: failure; the operation is scheduled again with one more
\* retry counted, or after three retries completion_callback(false).
SyncWorkerFailed(w) ==
    /\ cloud.worker[w].pc = "s_failed"
    /\ LET operation == cloud.worker[w].operation
       IN  IF operation.retry_count < 3
           THEN \E v \in SyncWorkers \cup {0} :
                   /\ CanPush(v)
                   /\ cloud' = [Pushed([operation EXCEPT !.retry_count = @ + 1], v)
                                   EXCEPT !.worker[w].pc = "s_head"]
           ELSE Callback(w, FALSE, TRUE)
    /\ UNCHANGED << ManagerVars, batch, move >>

\* Lines 452-457: the catch block, completion_callback(false).
SyncWorkerCatch(w) ==
    /\ cloud.worker[w].pc = "s_catch"
    /\ Callback(w, FALSE, FALSE)
    /\ UNCHANGED << ManagerVars, batch, move >>

SyncWorkerLoop ==
    \E w \in SyncWorkers :
        \/ SyncWorkerHead(w)
        \/ SyncWorkerWait(w)
        \/ SyncWorkerBlock(w)
        \/ SyncWorkerExecute(w)
        \/ SyncWorkerSucceeded(w)
        \/ SyncWorkerFailed(w)
        \/ SyncWorkerCatch(w)

\* Stop() of the integration (lines 78-90): running_ is cleared, notify_all
\* wakes the waiting workers, and the sync threads are joined.
CloudStop ==
    \/ /\ cloud.stop = "idle"
       /\ cloud' = [cloud EXCEPT !.running_ = FALSE, !.stop = "notify"]
       /\ UNCHANGED << ManagerVars, batch, move >>
    \/ /\ cloud.stop = "notify"
       /\ cloud' = [cloud EXCEPT
                      !.worker = [v \in SyncWorkers |->
                                     IF @[v].pc = "s_blocked"
                                     THEN [@[v] EXCEPT !.pc = "s_wait"] ELSE @[v]],
                      !.stop = "join"]
       /\ UNCHANGED << ManagerVars, batch, move >>
    \/ /\ cloud.stop = "join"
       /\ \A v \in SyncWorkers : cloud.worker[v].pc = "exited"
       /\ cloud' = [cloud EXCEPT !.stop = "done"]
       /\ UNCHANGED << ManagerVars, batch, move >>

NextSync ==
    \/ ScheduleSync
    \/ SyncWorkerLoop
    \/ CloudStop

\* The integration after Start(), with a caller that schedules operations
\* and may stop the integration.
SpecSync == InitSync /\ [][NextSync]_vars

\* ---------------------------------------------------------------- claims
\* The foreground call op has returned and nothing has run since.
Returned(op) == pc["fg"] = "idle" /\ call.op = op /\ call.state = "returned"

Succeeded(op) == Returned(op) /\ call.ret

\* C1: immediately after every successful create, write, read or delete,
\* physical_used <= physical_limit (the unsigned counter never wraps).
C1_PhysicalWithinLimit ==
    (\E op \in {"create", "write", "read", "delete"} : Succeeded(op))
        => quota_.current_physical <= quota_.physical_limit

\* C2: a create that still exceeds virtual_limit after one growth step fails,
\* so after every successful create virtual_used <= virtual_limit.
C2_CreateWithinVirtualLimit ==
    Succeeded("create") => quota_.current_virtual <= quota_.virtual_limit

\* C3: a create on a path that is already in the table fails and leaves the
\* table and virtual_used as they were.
C3_CreateExistingFails ==
    [][(pc["fg"] = "create" /\ pc'["fg"] # "create"
            /\ call.path \in DOMAIN virtual_files_)
        => (/\ ~call'.ret
            /\ virtual_files_' = virtual_files_
            /\ quota_'.current_virtual = quota_.current_virtual)]_vars

\* C4: no thread ever blocks forever on the table lock it already holds.
C4_NoSelfDeadlock ==
    \A t \in Threads : ~(pc[t] = "deadlocked" /\ files_mutex_ = t)

\* C5: create(p, n); write(p, b); read(p) with len(b) <= n and len(b) within
\* the free physical space: the write succeeds, and a read whose buffer holds
\* the bytes succeeds and returns exactly b.
C5_RoundTrip ==
    LET on_created == /\ at_create.valid
                      /\ at_create.path = call.path
                      /\ call.path \in DOMAIN virtual_files_
                      /\ ~call.fault
    IN  /\ (/\ call.op = "write"
            /\ pc["fg"] \in {"idle", "deadlocked"}
            /\ on_created
            /\ call.fits
            /\ Len(call.data) <= virtual_files_[call.path].virtual_size)
           => Succeeded("write")
        /\ (/\ Returned("read")
            /\ on_created
            /\ at_create.has_write
            /\ call.buf >= Len(at_create.written))
           => (call.ret /\ call.out = at_create.written)

\* C6: the first delete of an existing path succeeds and leaves both quota
\* counters at their values before the matching create, whatever was written
\* in between; the second delete fails.
C6_DeleteRestoresCounters ==
    /\ (Succeeded("delete") /\ at_create.valid /\ at_create.path = call.path)
       => (/\ quota_.current_physical = at_create.physical
           /\ quota_.current_virtual = at_create.virtual)
    /\ (Returned("delete") /\ ~call.found) => ~call.ret

\* C7: a write to a path with no entry fails, creates no entry and leaves the
\* quota, the table and the physical files unchanged.
C7_WriteMissingNotFound ==
    [][(pc["fg"] = "write" /\ pc'["fg"] # "write"
            /\ call.path \notin DOMAIN virtual_files_)
        => (/\ pc'["fg"] = "idle"
            /\ call'.state = "returned"
            /\ ~call'.ret
            /\ virtual_files_' = virtual_files_
            /\ quota_' = quota_
            /\ disk' = disk)]_vars

\* A write to an absent path has returned false while another file exists.
C7_Witness ==
    /\ Returned("write")
    /\ ~call.found
    /\ ~call.ret
    /\ call.path \notin DOMAIN virtual_files_
    /\ virtual_files_ # << >>

\* C8: a write that finds physical_used + len(bytes) > physical_limit runs the
\* rebalance pass inside the call and then returns false to its caller.
C8_InsufficientSpaceReturns ==
    (call.op = "write" /\ call.found /\ ~call.fits)
        => (/\ pc["fg"] # "deadlocked"
            /\ call.state # "threw"
            /\ (pc["fg"] = "idle" => ~call.ret))

\* C9: in every state, every file's physical_path is the path derived from its
\* virtual_path and its tier.
C9_PathMatchesTier ==
    \A p \in DOMAIN virtual_files_ :
        virtual_files_[p].physical_path = GetPhysicalPath(p, virtual_files_[p].tier)

\* A rebalance pass has moved the physical file of an entry out of the hot tier.
C9_Witness ==
    \E p \in DOMAIN virtual_files_ :
        /\ virtual_files_[p].tier # "HOT"
        /\ virtual_files_[p].physical_path \in DOMAIN disk

\* C10: the table and the quota are written only by the thread that holds the
\* table lock.
C10_WritesUnderLock ==
    [][\A t \in Threads :
          (pc'[t] # pc[t] /\ (quota_' # quota_ \/ virtual_files_' # virtual_files_))
              => files_mutex_ = t]_vars

\* C11: after every coefficient recompute, by a direct call of
\* RecalculateQuantumMultiplier or by the growth step of a create,
\* virtual_limit = floor(physical_limit * multiplier_factor).
C11_LimitFollowsCoefficient ==
    (Returned("recalculate") \/ (Succeeded("create") /\ call.grew))
        => quota_.virtual_limit =
               VirtualLimitOf(quota_.physical_limit, quota_.multiplier_factor)

\* C12: in every reachable state the overcommit coefficient lies in
\* [1.5, 10.0].
C12_CoefficientInRange ==
    /\ quota_.multiplier_factor >= MinMultiplier
    /\ quota_.multiplier_factor <= MaxMultiplier

\* C13: a rebalance pass leaves every file it visits, written or not, in the
\* tier it predicted for that file (a visit whose rename failed aside).
C13_PassSetsPredictedTier ==
    [][\A t \in {"fg", "tier"} : \A p \in DOMAIN virtual_files_ :
          LET file == virtual_files_[p]
              optimal_tier == PredictOptimalTier(file)
              rename_failed == /\ optimal_tier # file.tier
                               /\ file.physical_path \in DOMAIN disk
                               /\ disk' = disk
          IN  (/\ pc[t] = "opt_loop"
               /\ pc'[t] = "opt_loop"
               /\ p \in todo[t]
               /\ p \notin todo'[t]
               /\ ~rename_failed)
              => virtual_files_'[p].tier = optimal_tier]_vars

\* The tier the claim C14 gives a file: its effective age, the hours since
\* last_access divided by priority_score (in thousandths), against the three
\* thresholds.
TierOfAge(elapsed, priority_score) ==
    IF elapsed * 1000 < HotHours * priority_score THEN "HOT"
    ELSE IF elapsed * 1000 < WarmHours * priority_score THEN "WARM"
    ELSE IF elapsed * 1000 < ColdHours * priority_score THEN "COLD"
    ELSE "FROZEN"

\* C14: the predicted tier of a file is a function of its own elapsed time and
\* priority_score alone, whatever other files the table holds.
C14_TierIsFunctionOfAgeAndPriority ==
    \A p \in DOMAIN virtual_files_ :
        PredictOptimalTier(virtual_files_[p]) =
            TierOfAge(now - virtual_files_[p].last_access,
                      virtual_files_[p].priority_score)

\* C15 says that some behaviour reaches a state, which no invariant or
\* temporal formula states.  What the code allows instead: no entry ever has a
\* cloud_location, and physical_used changes in the write and delete steps of
\* the foreground thread only, never in a step of a rebalance pass.
C15_NeverOffloaded ==
    \A p \in DOMAIN virtual_files_ : virtual_files_[p].cloud_location = ""

C15_OnlyWriteAndDeleteChangePhysicalUsed ==
    [][quota_'.current_physical # quota_.current_physical
          => pc["fg"] \in {"write", "w_recheck", "delete"}]_vars

\* C16 speaks of a trim pass that starts over budget.  The code never marks a
\* file cached, so the cached total is 0 in every state and no pass starts
\* over budget.
C16_NothingCached == CacheUsage(virtual_files_) = 0

C18_ReadCachesEligibleFile ==
    [][(pc["fg"] = "read" /\ pc'["fg"] = "idle" /\ call'.ret)
        => LET file == virtual_files_[call.path]
           IN  virtual_files_'[call.path].is_cached =
                   (ShouldCacheFile(file) \/ file.is_cached)]_vars

\* What a read of path p with a large enough buffer returns: the bytes of the
\* physical file of p, if there is one.
Stored(files, files_on_disk, p) ==
    IF files[p].physical_path \in DOMAIN files_on_disk
    THEN << files_on_disk[files[p].physical_path] >>
    ELSE << >>

\* C19: a read of p returns the bytes of the latest completed write to p.
\* Step by step: a write to p that returns true leaves its bytes as what a read
\* of p returns; a successful read returns them; and no step outside the
\* foreground operations on p itself (an operation on another path, a step of
\* a rebalance pass or of a loop) changes what a read of a written p returns.
\* Bytes are those of a write that returned true only where the relock of the
\* table lock proceeds: elsewhere no write returns true.
C19_WriteVisibleToRead ==
    [][\A p \in DOMAIN virtual_files_ \cap DOMAIN virtual_files_' :
          LET before == Stored(virtual_files_, disk, p)
              after == Stored(virtual_files_', disk', p)
              returns == pc["fg"] # "idle" /\ pc'["fg"] = "idle"
                         /\ call'.state = "returned" /\ call'.ret
              on_p == pc["fg"] \in {"create", "write", "w_recheck", "read"}
                      /\ call.path = p
          IN  /\ (returns /\ call.op = "write" /\ call.path = p)
                     => after = << call.data >>
              /\ (returns /\ call.op = "read" /\ call.path = p)
                     => << call'.out >> = before
              /\ (relock = "proceed" /\ before # << >> /\ ~on_p)
                     => after = before]_vars

\* C20: a recomputation that leaves virtual_limit under current_virtual
\* removes and alters no file, and from then on, for as long as
\* current_virtual stays above virtual_limit, no CreateVirtualFile of a new
\* path returns true.
C20_CreatesBlockedWhileOverLimit ==
    [][/\ (pc["quantum"] = "q_limits" /\ pc'["quantum"] = "q_head"
            /\ quota_'.virtual_limit < quota_'.current_virtual)
           => (virtual_files_' = virtual_files_ /\ disk' = disk)
       /\ (shrunk /\ pc["fg"] = "create" /\ ~call.found /\ pc'["fg"] = "idle")
           => ~call'.ret]_vars

\* C21: while a path stays in the table its virtual_size keeps the value
\* given at creation: no step of any operation (a second create on the path
\* included) changes it.
C21_VirtualSizeKept ==
    [][\A p \in DOMAIN virtual_files_ \cap DOMAIN virtual_files_' :
          virtual_files_'[p].virtual_size = virtual_files_[p].virtual_size]_vars

\* C22: of the claim about a read whose retrieval from the cloud fails, the
\* part the code can reach: a ReadVirtualFile that returns false leaves the
\* tier, physical_path and cloud_location of its file as they were.  (No file
\* ever has a cloud_location, C15_NeverOffloaded, and DownloadFromCloud never
\* fails.)
C22_FailedReadKeepsPlacement ==
    [][(pc["fg"] = "read" /\ pc'["fg"] = "idle" /\ ~call'.ret
        /\ call.path \in DOMAIN virtual_files_)
       => LET before == virtual_files_[call.path]
              after == virtual_files_'[call.path]
          IN  /\ after.tier = before.tier
              /\ after.physical_path = before.physical_path
              /\ after.cloud_location = before.cloud_location]_vars

\* An iteration of the loop of thread t is about to fail: the relock of
\* files_mutex_ that its next statement makes throws std::system_error.
Failing(t) ==
    /\ relock = "throw"
    /\ \/ t = "tier" /\ pc[t] = "opt_loop" /\ todo[t] # {}
       \/ t = "quantum" /\ pc[t] = "q_ent" /\ virtual_files_ # << >>

\* The first statement of the body of the loop of thread t.
BodyStart(t) ==
    CASE t = "tier" -> "opt_lock"
      [] t = "cache" -> "c_scan"
      [] t = "quantum" -> "q_ce"

\* C23: a failed iteration of a background loop does not end the loop: with
\* running_ set, no loop thread is ever out of its loop, and after an
\* iteration that fails the loop enters its body again.
C23_LoopSurvivesFailure ==
    /\ [](running_ => \A t \in {"tier", "cache", "quantum"} : pc[t] # "done")
    /\ \A t \in {"tier", "quantum"} : Failing(t) ~> (pc[t] = BodyStart(t))

C23_Witness == Failing("tier") \/ Failing("quantum")

\* C24: the thread that takes files_mutex_ in a step does not hold
\* cache_mutex_: no operation takes the table lock after the cache lock.
C24_TableLockBeforeCacheLock ==
    [][(files_mutex_' # files_mutex_ /\ files_mutex_' # NoThread)
       => cache_mutex_ # files_mutex_']_vars

\* The cache lock is held by a trim pass while another thread holds the table
\* lock it has taken meanwhile.
C24_Witness ==
    /\ cache_mutex_ = "cache"
    /\ pc["cache"] = "c_sum"
    /\ files_mutex_ \in {"fg", "tier"}

\* C25: a create past the limit whose growth step would take the multiplier
\* above the maximum sets the multiplier to the maximum, derives virtual_limit
\* from it, and succeeds exactly when the file fits under that limit.
C25_GrowthCappedAtMaximum ==
    [][LET wanted == (quota_.current_virtual + call.size) % SizeMod
           capped == VirtualLimitOf(quota_.physical_limit, MaxMultiplier)
       IN  (/\ pc["fg"] = "create" /\ pc'["fg"] = "idle"
            /\ wanted > quota_.virtual_limit
            /\ quota_.multiplier_factor * 11 > MaxMultiplier * 10)
           => /\ quota_'.multiplier_factor = MaxMultiplier
              /\ quota_'.virtual_limit = capped
              /\ call'.ret = (wanted <= capped)]_vars

\* C26: every file's priority_score lies in [0, 2] in every state.
C26_PriorityBounded ==
    \A p \in DOMAIN virtual_files_ :
        /\ virtual_files_[p].priority_score >= 0
        /\ virtual_files_[p].priority_score <= 2000

\* The sum of size[p] over the paths p of a table.
RECURSIVE SumOver(_, _)
SumOver(paths, size) ==
    IF paths = {} THEN 0
    ELSE LET p == CHOOSE x \in paths : TRUE
         IN  size[p] + SumOver(paths \ {p}, size)

\* C27: in every state current_physical is the sum of physical_size over the
\* files of the table.
C27_PhysicalUsedIsSum ==
    quota_.current_physical =
        SumOver(DOMAIN virtual_files_,
                [p \in DOMAIN virtual_files_ |-> virtual_files_[p].physical_size])

\* C28: in every state current_virtual is the sum of virtual_size over the
\* files of the table.
C28_VirtualUsedIsSum ==
    quota_.current_virtual =
        SumOver(DOMAIN virtual_files_,
                [p \in DOMAIN virtual_files_ |-> virtual_files_[p].virtual_size])

C30_FailedReadIsNoAccess ==
    [][(pc["fg"] = "read" /\ pc'["fg"] = "idle" /\ ~call'.ret
        /\ call.path \in DOMAIN virtual_files_)
       => /\ virtual_files_'[call.path].last_access =
                virtual_files_[call.path].last_access
          /\ virtual_files_'[call.path].priority_score =
                virtual_files_[call.path].priority_score]_vars


\* C31: every file of the table has physical_size <= virtual_size: the bytes a
\* file consumes on disk never exceed the size declared at its creation.
C31_PhysicalWithinVirtual ==
    \A p \in DOMAIN virtual_files_ :
        virtual_files_[p].physical_size <= virtual_files_[p].virtual_size


\* C32: a Stop() that has begun returns, whatever the three loops are doing.
C32_StopReturns ==
    (call.op = "stop" /\ call.state = "running")
        ~> (call.op = "stop" /\ call.state = "returned")

\* C32, the part after the return: when Stop() has returned no loop thread is
\* left, so no rebalance, trim or recompute pass follows until a Start().
C32_NoPassAfterStop ==
    Returned("stop") => /\ ~running_
                        /\ \A t \in Threads \ {"fg"} : pc[t] = "off"

\* C32, a build whose relock does not block: Stop() returns.
C32_StopReturnsUnlessBlocked ==
    (relock # "deadlock" /\ call.op = "stop" /\ call.state = "running")
        ~> (call.op = "stop" /\ call.state = "returned")


\* The result that a parallel ExecuteBatch has returned is complete: every
\* submitted operation was executed exactly once, and the result holds one
\* completed entry for each, counted as a success or as a failure.
BatchResultComplete ==
    LET r == batch.caller.result
        n == Len(batch.caller.operations)
    IN  /\ \A i \in 1..n : batch.executed[i] = 1
        /\ r.total_operations = n
        /\ r.successful_operations + r.failed_operations = r.total_operations
        /\ \A i \in 1..n :
              Cardinality({k \in 1..Len(r.operations) :
                              /\ r.operations[k].operation_id = i
                              /\ r.operations[k].completed}) = 1

\* C33: a parallel ExecuteBatch returns only after every submitted operation
\* has been executed exactly once, with a result of one completed entry per
\* operation and successful + failed = total = number submitted.
C33_BatchResultComplete ==
    (batch.caller.result.returned /\ batch.caller.mode = "parallel")
        => BatchResultComplete

\* C33, without a Shutdown() by another thread.
C33_CompleteUnlessShutdown ==
    (/\ batch.caller.result.returned
     /\ batch.caller.mode = "parallel"
     /\ batch.shutdown = "idle")
        => BatchResultComplete

\* C33, the part about execution: when a parallel ExecuteBatch has returned
\* every submitted operation was executed exactly once.
C33_ExecutedOnce ==
    (batch.caller.result.returned /\ batch.caller.mode = "parallel")
        => \A i \in 1..Len(batch.caller.operations) : batch.executed[i] = 1


\* C34: a parallel ExecuteBatch terminates, a Shutdown() by another thread
\* included.
C34_ParallelBatchTerminates ==
    (batch.caller.pc = "eb_push") ~> batch.caller.result.returned

\* C34, without a Shutdown(): the call returns.
C34_TerminatesUnlessShutdown ==
    (batch.caller.pc = "eb_push")
        ~> (batch.caller.result.returned \/ batch.shutdown # "idle")


\* The bytes that the table and the disk hold for virtual path p.
BytesOf(p) ==
    IF p \in DOMAIN virtual_files_ /\ virtual_files_[p].physical_path \in DOMAIN disk
    THEN disk[virtual_files_[p].physical_path]
    ELSE << >>

\* C35: a MOVE_FILE is all-or-nothing.  When it reports failure the source
\* is as present as it was, and no destination entry and no charged virtual
\* quota are left; when it reports success the destination holds the bytes
\* of the source and the source is gone.
C35_MoveAllOrNothing ==
    move.stage = "done" =>
        IF move.result
        THEN /\ MoveSource \notin DOMAIN virtual_files_
             /\ MoveDestination \in DOMAIN virtual_files_
             /\ BytesOf(MoveDestination) = move.buffer
        ELSE /\ (MoveSource \in DOMAIN virtual_files_) = move.had_source
             /\ MoveDestination \notin DOMAIN virtual_files_
             /\ quota_.current_virtual = move.virtual_before

\* C35, the half about success.
C35_MoveSuccess ==
    (move.stage = "done" /\ move.result) =>
        /\ MoveSource \notin DOMAIN virtual_files_
        /\ MoveDestination \in DOMAIN virtual_files_
        /\ BytesOf(MoveDestination) = move.buffer

\* C35, the half about failure on a build whose relock of files_mutex_
\* proceeds.
C35_MoveFailureNoRelock ==
    (move.stage = "done" /\ ~move.result /\ relock = "proceed") =>
        /\ MoveDestination \notin DOMAIN virtual_files_
        /\ quota_.current_virtual = move.virtual_before


\* The attempts on operation id were all failures.
AllFailed(id) ==
    \A k \in 1..Len(cloud.attempts[id]) : cloud.attempts[id][k] = "failure"

\* The last attempt on operation id succeeded, after failures only.
FirstSuccess(id) ==
    LET made == cloud.attempts[id]
    IN  /\ made # << >>
        /\ made[Len(made)] = "success"
        /\ \A k \in 1..(Len(made) - 1) : made[k] = "failure"

\* What C36 says of the operation id.
SyncOnceWithRetries(id) ==
    /\ Len(cloud.attempts[id]) <= 4
    /\ \A k \in 1..Len(cloud.sync_queue_) :
          cloud.sync_queue_[k].id = id => cloud.sync_queue_[k].retry_count <= 3
    /\ \A w \in SyncWorkers :
          cloud.worker[w].operation.id = id => cloud.worker[w].operation.retry_count <= 3
    /\ Len(cloud.callbacks[id]) <= 1
    /\ cloud.callbacks[id] = << TRUE >> => FirstSuccess(id)
    /\ cloud.callbacks[id] = << FALSE >>
          => (Len(cloud.attempts[id]) = 4 /\ AllFailed(id))

\* C36: every scheduled sync operation is executed at most 4 times with
\* retry_count at most 3, and its completion callback is invoked at most
\* once: with true on the first successful attempt, or with false only after
\* the last permitted retry has failed.
C36_SyncOnceWithRetries ==
    \A id \in 1..MaxSyncs : SyncOnceWithRetries(id)

\* C36, the part about attempts: at most 4 per operation, retry_count at
\* most 3.
C36_AtMostFourAttempts ==
    /\ \A id \in 1..MaxSyncs : Len(cloud.attempts[id]) <= 4
    /\ \A k \in 1..Len(cloud.sync_queue_) : cloud.sync_queue_[k].retry_count <= 3
    /\ \A w \in SyncWorkers : cloud.worker[w].operation.retry_count <= 3

\* C36 for the operations whose attempts and callback never throw.
C36_HoldsWithoutExceptions ==
    \A id \in 1..MaxSyncs :
        (/\ \A k \in 1..Len(cloud.attempts[id]) : cloud.attempts[id][k] # "exception"
         /\ \A w \in SyncWorkers :
               cloud.worker[w].operation.id = id
                  => cloud.worker[w].operation.completion_callback # "throws")
            => SyncOnceWithRetries(id)

\* C36, the callback when no attempt throws: invoked at most once.
C36_CallbackOnceUnlessAttemptThrows ==
    \A id \in 1..MaxSyncs :
        (\A k \in 1..Len(cloud.attempts[id]) : cloud.attempts[id][k] # "exception")
            => Len(cloud.callbacks[id]) <= 1

====
